---- MODULE Spec2Model ----
(***************************************************************************)
(* Assistly: the session-scoped conversation memory store                  *)
(* (src/app/memory_manager.py, ConversationMemoryManager) and the hybrid   *)
(* retrieval pipeline (src/app/rag_pipeline.py, AtlanRAG).                 *)
(*                                                                         *)
(* Seven specifications share the module:                                  *)
(*   Spec      the memory manager, one handler per step (no concurrency)   *)
(*   SpecPairs the alternating user/assistant append scenario of the demo  *)
(*   SpecConc  two threads running the handlers statement by statement     *)
(*   SpecRag   one query through search_documents / answer_question        *)
(*   SpecAppend single appends to one session, for every max_messages      *)
(*   SpecTurns two request threads running the chat handlers of main.py    *)
(*   SpecReads the handlers of Spec with the read handlers and force_cleanup *)
(***************************************************************************)
EXTENDS Integers, Sequences, FiniteSets, TLC

VARIABLES
    \* ConversationMemoryManager fields (memory_manager.py:28-33)
    sessions,               \* self.sessions: id -> [chat_history, created_at, last_accessed]
    max_messages,           \* self.max_messages
    session_timeout,        \* self.session_timeout (seconds)
    auto_cleanup_interval,  \* self.auto_cleanup_interval
    operation_count,        \* self.operation_count
    cleanup_stats,          \* self.cleanup_stats
    clock,                  \* time.time()
    ret,                    \* the value the last completed call returned
    \* the demo program of src/memory_manager.py:321-350 (SpecPairs)
    demo,                   \* [session_id, appended]: its session and how far it is
    \* two request threads on one manager (SpecConc); there sessions[id].chat_history
    \* is a reference into heap, as the threads hold references to the history objects
    threads,                \* thread -> its call, its position in it and its locals
    heap,                   \* InMemoryChatMessageHistory objects: reference -> messages
    \* AtlanRAG, rag_pipeline.py (SpecRag)
    settings,               \* ENABLE_QUERY_ENHANCEMENT, ENABLE_HYBRID_SEARCH and the two weights
    faults,                 \* the services that fail for the query
    document_texts,         \* self.document_texts, with each text's source_url
    bm25_scores,            \* what self.bm25_index.get_scores gives for the query
    qdrant_hits,            \* what qdrant_client.search gives for the query
    top_k,                  \* the top_k the search is run with
    rag_pc,                 \* how far the query is: start, searched, answered
    keyword_results,        \* keyword_search's result for the query
    search_results,         \* search_documents' result
    response,               \* answer_question's result
    llm_calls,              \* calls of chat.completions.create by generate_rag_response
    enhanced_query,         \* the query search_documents searched with
    llm_outcome,            \* what the call of generate_rag_response did
    \* the Streamlit handlers of main.py (SpecTurns)
    conversation_session_id, \* st.session_state.conversation_session_id
    requests                \* request thread -> the handler it runs and its locals

storeVars == <<sessions, operation_count, cleanup_stats>>
cfgVars == <<max_messages, session_timeout, auto_cleanup_interval>>
managerVars == <<sessions, max_messages, session_timeout, auto_cleanup_interval,
                 operation_count, cleanup_stats, clock, ret>>
pairsVars == <<demo>>
concVars == <<threads, heap>>
ragVars == <<settings, faults, document_texts, bm25_scores, qdrant_hits, top_k, rag_pc,
             keyword_results, search_results, response, llm_calls, enhanced_query,
             llm_outcome>>
turnsVars == <<conversation_session_id, requests>>
vars == <<managerVars, pairsVars, concVars, ragVars, turnsVars>>

----------------------------------------------------------------------------
(* Bounds of the model *)

\* the clock advances in ticks of TickSeconds, at most MaxTicks times
MaxTicks == 2
TickSeconds == 30
\* max_messages_per_session is drawn from 2..MaxMaxMessages
MaxMaxMessages == 3
\* session_timeout_minutes is drawn from 1..MaxTimeoutMinutes
MaxTimeoutMinutes == 1
\* auto_cleanup_interval is drawn from 1..MaxCleanupInterval
MaxCleanupInterval == 2

\* seconds per minute, memory_manager.py:30
SecondsPerMinute == 60

\* the value None of an Optional[str] argument, and the empty string
None == "None"
EmptyId == ""
\* ids a caller makes up, and the ids uuid.uuid4() can produce
CallerIds == {"s1"}
Uuids == {"u1"}
\* every session_id argument a caller can pass
IdArgs == {None, EmptyId} \cup CallerIds \cup Uuids
\* message texts
Contents == {"m"}

Min(a, b) == IF a <= b THEN a ELSE b
Max(a, b) == IF a >= b THEN a ELSE b

----------------------------------------------------------------------------
(* Pure parts of ConversationMemoryManager *)

HumanMessage(c) == [role |-> "user", content |-> c]
AIMessage(c) == [role |-> "ai", content |-> c]

\* a Python truth test of an Optional[str]: None and "" are falsy
Truthy(session_id) == session_id # None /\ session_id # EmptyId

\* the function f without the keys in S (del self.sessions[k] for k in S)
Without(f, S) == [k \in DOMAIN f \ S |-> f[k]]
\* the function f with key k set to v (self.sessions[k] = v)
With(f, k, v) == [x \in DOMAIN f \cup {k} |-> IF x = k THEN v ELSE f[x]]

\* the expiry test written with > where the code has >=
IsExpired_Strict(session_data, current_time) ==
    (current_time - session_data.last_accessed) > session_timeout

\* line 245: the expiry test of the sweep
IsExpired(session_data, current_time) ==
    (current_time - session_data.last_accessed) >= session_timeout

\* line 229 (and 215): the activity test of list_active_sessions
IsActive(session_data, current_time) ==
    (current_time - session_data.last_accessed) < session_timeout

\* lines 218-232; the list is returned in dict order, modelled as a set
list_active_sessions(sess, current_time) ==
    {session_id \in DOMAIN sess : IsActive(sess[session_id], current_time)}

\* the removal count capped so that two pairs stay, where the code keeps 2 messages
MessagesToRemove_KeepTwoPairs(len, maxm) ==
    LET r0 == len - maxm
        r1 == IF r0 % 2 = 1 THEN r0 + 1 ELSE r0
    IN  Min(r1, len - 4)

\* the removal count without the rounding up to a pair of lines 308-309
MessagesToRemove_NoPairing(len, maxm) ==
    Min(len - maxm, len - 2)

\* the removal count without the cap of line 312
MessagesToRemove_NoCap(len, maxm) ==
    LET r0 == len - maxm
    IN  IF r0 % 2 = 1 THEN r0 + 1 ELSE r0

\* lines 304-312: how many of the oldest messages a trim removes
MessagesToRemove(len, maxm) ==
    LET r0 == len - maxm
        r1 == IF r0 % 2 = 1 THEN r0 + 1 ELSE r0
    IN  Min(r1, len - 2)

\* the trim keeping the oldest messages (messages[:-n]) where the code keeps
\* the newest (messages[n:])
TrimmedMessages_KeepOldest(messages, maxm) ==
    IF Len(messages) <= maxm
    THEN messages
    ELSE LET messages_to_remove == MessagesToRemove(Len(messages), maxm)
         IN  IF messages_to_remove > 0
             THEN SubSeq(messages, 1, Len(messages) - messages_to_remove)
             ELSE messages

\* lines 298-320: the message list of a session after the trim
TrimmedMessages(messages, maxm) ==
    IF Len(messages) <= maxm
    THEN messages
    ELSE LET messages_to_remove == MessagesToRemove(Len(messages), maxm)
         IN  IF messages_to_remove > 0
             THEN SubSeq(messages, messages_to_remove + 1, Len(messages))
             ELSE messages

\* lines 287-320 on a store st = [sessions, operation_count, cleanup_stats]
TrimSessionMessages(st, session_id) ==
    IF session_id \notin DOMAIN st.sessions
    THEN st
    ELSE [st EXCEPT !.sessions[session_id].chat_history =
                        TrimmedMessages(@, max_messages)]

\* lines 234-257: the sweep; [store, ret]
CleanupExpiredSessions(st, current_time) ==
    LET expired_sessions ==
            {session_id \in DOMAIN st.sessions :
                IsExpired(st.sessions[session_id], current_time)}
        n == Cardinality(expired_sessions)
    IN  [store |-> [st EXCEPT
                     !.sessions = Without(@, expired_sessions),
                     !.cleanup_stats =
                        IF n > 0
                        THEN [total_cleanups |-> @.total_cleanups + 1,
                              total_expired_removed |-> @.total_expired_removed + n]
                        ELSE @],
         ret |-> n]

\* a _maybe_auto_cleanup that sweeps when the counter has passed the interval
MaybeAutoCleanup_Late(st, current_time, force) ==
    LET counted == [st EXCEPT !.operation_count = @ + 1]
    IN  IF force \/ counted.operation_count > auto_cleanup_interval
        THEN LET swept == CleanupExpiredSessions(counted, current_time)
             IN  [store |-> [swept.store EXCEPT !.operation_count = 0],
                  ret |-> swept.ret]
        ELSE [store |-> counted, ret |-> 0]

\* lines 322-339: _maybe_auto_cleanup; [store, ret]
MaybeAutoCleanup(st, current_time, force) ==
    LET counted == [st EXCEPT !.operation_count = @ + 1]
    IN  IF force \/ counted.operation_count >= auto_cleanup_interval
        THEN LET swept == CleanupExpiredSessions(counted, current_time)
             IN  [store |-> [swept.store EXCEPT !.operation_count = 0],
                  ret |-> swept.ret]
        ELSE [store |-> counted, ret |-> 0]

\* lines 270-273: the messages of all sessions, counted
RECURSIVE TotalMessages(_)
TotalMessages(sess) ==
    IF DOMAIN sess = {}
    THEN 0
    ELSE LET session_id == CHOOSE id \in DOMAIN sess : TRUE
         IN  Len(sess[session_id].chat_history) + TotalMessages(Without(sess, {session_id}))

\* lines 259-285: get_memory_stats; [store, ret].  The sweep reads the clock
\* at line 241 (sweep_time), list_active_sessions reads it again at line 226
\* (count_time)
GetMemoryStats(st, sweep_time, count_time) ==
    LET cleaned == MaybeAutoCleanup(st, sweep_time, TRUE).store
        total_sessions == Cardinality(DOMAIN cleaned.sessions)
        active_sessions == Cardinality(list_active_sessions(cleaned.sessions, count_time))
    IN  [store |-> cleaned,
         ret |-> [total_sessions |-> total_sessions,
                  active_sessions |-> active_sessions,
                  expired_sessions |-> total_sessions - active_sessions,
                  total_messages |-> TotalMessages(cleaned.sessions),
                  max_messages_per_session |-> max_messages,
                  session_timeout_seconds |-> session_timeout,
                  auto_cleanup_interval |-> auto_cleanup_interval,
                  cleanup_stats |-> cleaned.cleanup_stats]]

\* a get_or_create_session that never takes the caller's id for a new session
GetOrCreateSession_AlwaysFresh(st, session_id, uuid, current_time) ==
    LET cleaned == MaybeAutoCleanup(st, current_time, FALSE).store
    IN  IF Truthy(session_id) /\ session_id \in DOMAIN cleaned.sessions
        THEN [store |-> [cleaned EXCEPT
                          !.sessions[session_id].last_accessed = current_time],
              ret |-> session_id]
        ELSE [store |-> [cleaned EXCEPT !.sessions =
                            With(@, uuid,
                                 [chat_history |-> <<>>,
                                  created_at |-> current_time,
                                  last_accessed |-> current_time])],
              ret |-> uuid]

\* lines 39-64: get_or_create_session; uuid is what get_session_id() would give
GetOrCreateSession(st, session_id, uuid, current_time) ==
    LET cleaned == MaybeAutoCleanup(st, current_time, FALSE).store
    IN  IF Truthy(session_id) /\ session_id \in DOMAIN cleaned.sessions
        THEN [store |-> [cleaned EXCEPT
                          !.sessions[session_id].last_accessed = current_time],
              ret |-> session_id]
        ELSE LET new_session_id == IF Truthy(session_id) THEN session_id ELSE uuid
             IN  [store |-> [cleaned EXCEPT !.sessions =
                                With(@, new_session_id,
                                     [chat_history |-> <<>>,
                                      created_at |-> current_time,
                                      last_accessed |-> current_time])],
                  ret |-> new_session_id]

\* an append that leaves last_accessed as it was
AddMessage_NoTouch(st, session_id, message, uuid, current_time) ==
    LET got == IF session_id \notin DOMAIN st.sessions
               THEN GetOrCreateSession(st, session_id, uuid, current_time)
               ELSE [store |-> st, ret |-> session_id]
        sid == got.ret
        appended == [got.store EXCEPT
                       !.sessions[sid].chat_history = Append(@, message)]
        trimmed == TrimSessionMessages(appended, sid)
    IN  MaybeAutoCleanup(trimmed, current_time, FALSE).store

\* lines 66-87 and 89-110: add_user_message / add_ai_message with the message built
AddMessage(st, session_id, message, uuid, current_time) ==
    LET got == IF session_id \notin DOMAIN st.sessions
               THEN GetOrCreateSession(st, session_id, uuid, current_time)
               ELSE [store |-> st, ret |-> session_id]
        sid == got.ret
        appended == [got.store EXCEPT
                       !.sessions[sid].chat_history = Append(@, message),
                       !.sessions[sid].last_accessed = current_time]
        trimmed == TrimSessionMessages(appended, sid)
    IN  MaybeAutoCleanup(trimmed, current_time, FALSE).store

----------------------------------------------------------------------------
(* The store as a record, and the step that writes a result back *)

Store == [sessions |-> sessions, operation_count |-> operation_count,
          cleanup_stats |-> cleanup_stats]

Commit(st, r) ==
    /\ sessions' = st.sessions
    /\ operation_count' = st.operation_count
    /\ cleanup_stats' = st.cleanup_stats
    /\ ret' = r
    /\ UNCHANGED <<cfgVars, clock>>

\* the ids uuid.uuid4() can return: never one that is in use
FreshUuids == Uuids \ DOMAIN sessions

\* whether a call with this argument would ask get_session_id() for an id
NeedsUuid(session_id) == ~Truthy(session_id)

----------------------------------------------------------------------------
(* Spec: the handlers of ConversationMemoryManager, one call per step *)

ConfigInit ==
    /\ max_messages \in 2..MaxMaxMessages
    /\ session_timeout \in {m * SecondsPerMinute : m \in 1..MaxTimeoutMinutes}
    /\ auto_cleanup_interval \in 1..MaxCleanupInterval

\* __init__, lines 19-33
StoreInit ==
    /\ sessions = << >>
    /\ operation_count = 0
    /\ cleanup_stats = [total_cleanups |-> 0, total_expired_removed |-> 0]
    /\ clock = 0
    /\ ret = [kind |-> "none"]

\* the demo program is not running
PairsOff == demo = [session_id |-> None, appended |-> 0]

\* no request threads
ConcOff == threads = << >> /\ heap = << >>

\* no query
RagOff ==
    /\ settings = [ENABLE_QUERY_ENHANCEMENT |-> FALSE, ENABLE_HYBRID_SEARCH |-> TRUE,
                   HYBRID_VECTOR_WEIGHT |-> 10, HYBRID_KEYWORD_WEIGHT |-> 0]
    /\ faults = {}
    /\ document_texts = << >>
    /\ bm25_scores = << >>
    /\ qdrant_hits = << >>
    /\ top_k = 0
    /\ rag_pc = "off"
    /\ keyword_results = << >>
    /\ search_results = << >>
    /\ response = [answer |-> "none"]
    /\ llm_calls = 0
    /\ enhanced_query = None
    /\ llm_outcome = None

\* no request handler
TurnsOff == conversation_session_id = None /\ requests = << >>

Init == ConfigInit /\ StoreInit /\ PairsOff /\ ConcOff /\ RagOff /\ TurnsOff

\* time passes between calls
Tick ==
    /\ clock + TickSeconds <= MaxTicks * TickSeconds
    /\ clock' = clock + TickSeconds
    /\ UNCHANGED <<storeVars, cfgVars, ret>>

\* get_or_create_session(session_id), lines 39-64
get_or_create_session(session_id) ==
    \E uuid \in IF NeedsUuid(session_id) THEN FreshUuids ELSE {None} :
        LET r == GetOrCreateSession(Store, session_id, uuid, clock)
        IN  Commit(r.store, [kind |-> "id", val |-> r.ret])

\* add_user_message(session_id, message), lines 66-87
add_user_message(session_id, message) ==
    \E uuid \in IF NeedsUuid(session_id) THEN FreshUuids ELSE {None} :
        Commit(AddMessage(Store, session_id, HumanMessage(message), uuid, clock),
               [kind |-> "none"])

\* add_ai_message(session_id, message), lines 89-110
add_ai_message(session_id, message) ==
    \E uuid \in IF NeedsUuid(session_id) THEN FreshUuids ELSE {None} :
        Commit(AddMessage(Store, session_id, AIMessage(message), uuid, clock),
               [kind |-> "none"])

\* a get_conversation_history that counts the call for an unknown id too
GetConversationHistory_CountsUnknown(st, session_id, current_time) ==
    LET touched == IF session_id \in DOMAIN st.sessions
                   THEN [st EXCEPT !.sessions[session_id].last_accessed = current_time]
                   ELSE st
        cleaned == MaybeAutoCleanup(touched, current_time, FALSE).store
    IN  [store |-> cleaned, raised |-> FALSE,
         ret |-> IF session_id \in DOMAIN cleaned.sessions
                 THEN cleaned.sessions[session_id].chat_history
                 ELSE <<>>]

\* lines 112-131: get_conversation_history; [store, raised, ret].  Line 131
\* reads self.sessions[session_id] after the sweep and raises KeyError if the
\* sweep removed it
GetConversationHistory(st, session_id, current_time) ==
    IF session_id \notin DOMAIN st.sessions
    THEN [store |-> st, raised |-> FALSE, ret |-> <<>>]
    ELSE LET touched == [st EXCEPT !.sessions[session_id].last_accessed = current_time]
             cleaned == MaybeAutoCleanup(touched, current_time, FALSE).store
         IN  IF session_id \in DOMAIN cleaned.sessions
             THEN [store |-> cleaned, raised |-> FALSE,
                   ret |-> cleaned.sessions[session_id].chat_history]
             ELSE [store |-> cleaned, raised |-> TRUE, ret |-> <<>>]

\* get_conversation_history(session_id), lines 112-131; the session was
\* touched at the very time of the sweep, so the sweep kept it
get_conversation_history(session_id) ==
    LET r == GetConversationHistory(Store, session_id, clock)
    IN  /\ ~r.raised
        /\ Commit(r.store, [kind |-> "messages", val |-> r.ret])

\* a clear_session that replaces the whole entry by a new one
clear_session_NewEntry(session_id) ==
    IF session_id \in DOMAIN sessions
    THEN Commit([Store EXCEPT !.sessions[session_id] =
                    [chat_history |-> <<>>, created_at |-> clock, last_accessed |-> clock]],
                [kind |-> "bool", val |-> TRUE])
    ELSE Commit(Store, [kind |-> "bool", val |-> FALSE])

\* a clear_session that puts last_accessed back to created_at
clear_session_ResetsAccess(session_id) ==
    IF session_id \in DOMAIN sessions
    THEN Commit([Store EXCEPT !.sessions[session_id].chat_history = <<>>,
                              !.sessions[session_id].last_accessed =
                                    sessions[session_id].created_at],
                [kind |-> "bool", val |-> TRUE])
    ELSE Commit(Store, [kind |-> "bool", val |-> FALSE])

\* clear_session(session_id), lines 163-177
clear_session(session_id) ==
    IF session_id \in DOMAIN sessions
    THEN Commit([Store EXCEPT !.sessions[session_id].chat_history = <<>>,
                              !.sessions[session_id].last_accessed = clock],
                [kind |-> "bool", val |-> TRUE])
    ELSE Commit(Store, [kind |-> "bool", val |-> FALSE])

\* a delete_session that empties the session and keeps its entry
delete_session_KeepsEntry(session_id) ==
    IF session_id \in DOMAIN sessions
    THEN Commit([Store EXCEPT !.sessions[session_id].chat_history = <<>>],
                [kind |-> "bool", val |-> TRUE])
    ELSE Commit(Store, [kind |-> "bool", val |-> FALSE])

\* delete_session(session_id), lines 179-192
delete_session(session_id) ==
    IF session_id \in DOMAIN sessions
    THEN Commit([Store EXCEPT !.sessions = Without(@, {session_id})],
                [kind |-> "bool", val |-> TRUE])
    ELSE Commit(Store, [kind |-> "bool", val |-> FALSE])

\* cleanup_expired_sessions(), lines 234-257
cleanup_expired_sessions ==
    LET r == CleanupExpiredSessions(Store, clock)
    IN  Commit(r.store, [kind |-> "count", val |-> r.ret])

\* the times a second reading of the clock in the same call can give
LaterTimes ==
    {clock} \cup {t \in {clock + TickSeconds} : t <= MaxTicks * TickSeconds}

\* get_memory_stats(), lines 259-285; time can pass between its two readings
\* of the clock
get_memory_stats ==
    \E count_time \in LaterTimes :
        LET r == GetMemoryStats(Store, clock, count_time)
        IN  /\ sessions' = r.store.sessions
            /\ operation_count' = r.store.operation_count
            /\ cleanup_stats' = r.store.cleanup_stats
            /\ ret' = [kind |-> "stats", val |-> r.ret]
            /\ clock' = count_time
            /\ UNCHANGED cfgVars

NextManager ==
    \/ Tick
    \/ \E session_id \in IdArgs : get_or_create_session(session_id)
    \/ \E session_id \in IdArgs, message \in Contents :
            add_user_message(session_id, message)
    \/ \E session_id \in IdArgs, message \in Contents :
            add_ai_message(session_id, message)
    \/ \E session_id \in IdArgs : get_conversation_history(session_id)
    \/ \E session_id \in IdArgs : clear_session(session_id)
    \/ \E session_id \in IdArgs : delete_session(session_id)
    \/ cleanup_expired_sessions
    \/ get_memory_stats

Next == NextManager /\ UNCHANGED <<pairsVars, concVars, ragVars, turnsVars>>

Spec == Init /\ [][Next]_vars

----------------------------------------------------------------------------
(* SpecPairs: the message trimming test of the demo program,               *)
(* src/memory_manager.py:321-350, for any even max_messages and NPairs     *)
(* user/assistant pairs appended in alternation to one session             *)

\* pairs the demo appends
NPairs == 7
\* max_messages_per_session is drawn from the even numbers of 2..MaxPairsMessages
MaxPairsMessages == 6
\* session_timeout_minutes left at its default, memory_manager.py:19
DefaultTimeoutMinutes == 60

\* the i-th message the demo appends: user and assistant in turn, pair by pair
DemoMessage(i) ==
    IF i % 2 = 1 THEN HumanMessage((i + 1) \div 2) ELSE AIMessage(i \div 2)

\* line 323: memory = ConversationMemoryManager(max_messages_per_session=...)
InitPairs ==
    /\ max_messages \in {m \in 2..MaxPairsMessages : m % 2 = 0}
    /\ session_timeout = DefaultTimeoutMinutes * SecondsPerMinute
    /\ auto_cleanup_interval \in 1..MaxCleanupInterval
    /\ StoreInit
    /\ PairsOff
    /\ ConcOff
    /\ RagOff
    /\ TurnsOff

\* line 326: session_id = memory.get_or_create_session()
DemoCreate ==
    /\ demo.session_id = None
    /\ get_or_create_session(None)
    /\ demo' = [demo EXCEPT !.session_id = ret'.val]

\* lines 330, 332, 345, 347: memory.add_user_message(session_id, ...)
DemoAddUser ==
    /\ demo.session_id # None
    /\ demo.appended < 2 * NPairs
    /\ demo.appended % 2 = 0
    /\ add_user_message(demo.session_id, DemoMessage(demo.appended + 1).content)
    /\ demo' = [demo EXCEPT !.appended = @ + 1]

\* lines 331, 333, 346, 348: memory.add_ai_message(session_id, ...)
DemoAddAi ==
    /\ demo.session_id # None
    /\ demo.appended % 2 = 1
    /\ add_ai_message(demo.session_id, DemoMessage(demo.appended + 1).content)
    /\ demo' = [demo EXCEPT !.appended = @ + 1]

\* lines 336, 350: reading the history between the appends
DemoRead ==
    /\ demo.session_id # None
    /\ get_conversation_history(demo.session_id)
    /\ UNCHANGED demo

DemoTick == Tick /\ UNCHANGED demo

NextPairs ==
    /\ DemoCreate \/ DemoAddUser \/ DemoAddAi \/ DemoRead \/ DemoTick
    /\ UNCHANGED <<concVars, ragVars, turnsVars>>

SpecPairs == InitPairs /\ [][NextPairs]_vars

\* the last n elements of s (all of s when it has fewer)
LastN(s, n) == SubSeq(s, Len(s) - Min(n, Len(s)) + 1, Len(s))

\* C2: after each completed pair the session holds exactly the
\* min(2n, max_messages) most recent messages, in their original order, and
\* they are complete user/assistant pairs beginning with a user message
\* (n pairs appended in alternation, max_messages even).
C2_PairsKeepMostRecent ==
    (demo.appended > 0 /\ demo.appended % 2 = 0) =>
        /\ demo.session_id \in DOMAIN sessions
        /\ LET history == sessions[demo.session_id].chat_history
               log == [i \in 1..demo.appended |-> DemoMessage(i)]
           IN  /\ Len(history) = Min(demo.appended, max_messages)
               /\ history = LastN(log, Min(demo.appended, max_messages))
               /\ \A i \in 1..Len(history) :
                    history[i].role = IF i % 2 = 1 THEN "user" ELSE "ai"
               /\ \A i \in 1..Len(history) :
                    i % 2 = 1 => history[i + 1].content = history[i].content

\* the stated case: 7 pairs with max_messages = 6 leave the pairs 5, 6 and 7
C2_Witness ==
    /\ demo.appended = 14
    /\ max_messages = 6
    /\ Len(sessions[demo.session_id].chat_history) = 6
    /\ sessions[demo.session_id].chat_history[1] = HumanMessage(5)

----------------------------------------------------------------------------
(* SpecAppend: a caller appends numbered messages to one session, user or  *)
(* assistant in any order, for every max_messages of 2..MaxAppendMessages  *)

\* max_messages_per_session is drawn from 2..MaxAppendMessages
MaxAppendMessages == 5
\* messages the caller appends
MaxAppends == 8

\* the session the caller appends to
AppendSession == "s1"

InitAppend ==
    /\ max_messages \in 2..MaxAppendMessages
    /\ session_timeout = DefaultTimeoutMinutes * SecondsPerMinute
    /\ auto_cleanup_interval \in 1..MaxCleanupInterval
    /\ StoreInit
    /\ PairsOff
    /\ ConcOff
    /\ RagOff
    /\ TurnsOff

\* the session's messages, none when it is not in the store
HistoryOf(sess, session_id) ==
    IF session_id \in DOMAIN sess THEN sess[session_id].chat_history ELSE << >>

\* the text of the next message: the messages are numbered 1, 2, ...
NextNumber ==
    LET messages == HistoryOf(sessions, AppendSession)
    IN  IF Len(messages) = 0 THEN 1 ELSE messages[Len(messages)].content + 1

\* add_user_message(AppendSession, n)
AppendUser ==
    /\ NextNumber <= MaxAppends
    /\ add_user_message(AppendSession, NextNumber)

\* add_ai_message(AppendSession, n)
AppendAi ==
    /\ NextNumber <= MaxAppends
    /\ add_ai_message(AppendSession, NextNumber)

NextAppend ==
    /\ AppendUser \/ AppendAi
    /\ UNCHANGED <<pairsVars, concVars, ragVars, turnsVars>>

SpecAppend == InitAppend /\ [][NextAppend]_vars

----------------------------------------------------------------------------
(* SpecConc: two request threads call add_user_message / add_ai_message or *)
(* cleanup_expired_sessions on the one manager.  The code takes no lock,   *)
(* so a thread can be preempted between any two statements: one step is    *)
(* one statement (named by its line in memory_manager.py; add_ai_message   *)
(* runs the statements of add_user_message with an AIMessage).             *)

ThreadIds == {1, 2}

ThreadIdle ==
    [pc |-> "idle", op |-> "none", session_id |-> None, message |-> None,
     chat_history |-> 0, messages |-> 0, messages_to_remove |-> 0,
     new_history |-> << >>, expired_sessions |-> {}]

IsAppend(op) == op \in {"add_user_message", "add_ai_message"}

\* a session that has been filled: max_messages messages, user and assistant in turn
FullHistory(maxm) ==
    [i \in 1..maxm |-> IF i % 2 = 1 THEN HumanMessage("m") ELSE AIMessage("m")]

\* the manager holds one full session, last touched at time 0
InitConc ==
    /\ ConfigInit
    /\ heap = <<FullHistory(max_messages)>>
    /\ sessions = [session_id \in CallerIds |->
                     [chat_history |-> 1, created_at |-> 0, last_accessed |-> 0]]
    /\ operation_count \in 0..(auto_cleanup_interval - 1)
    /\ cleanup_stats = [total_cleanups |-> 0, total_expired_removed |-> 0]
    /\ clock = 0
    /\ ret = [kind |-> "none"]
    /\ threads = [t \in ThreadIds |-> ThreadIdle]
    /\ PairsOff
    /\ RagOff
    /\ TurnsOff

ConcFrame == UNCHANGED <<cfgVars, ret, pairsVars, ragVars, turnsVars>>

\* thread t moves on, with its locals changed as in the record changes
Step(t, next_pc) == threads' = [threads EXCEPT ![t].pc = next_pc]

\* a request thread enters a handler
Call(t) ==
    /\ threads[t].pc = "idle"
    /\ \/ \E op \in {"add_user_message", "add_ai_message"}, session_id \in CallerIds :
            threads' = [threads EXCEPT ![t] =
                [@ EXCEPT !.pc = "a74", !.op = op, !.session_id = session_id,
                          !.message = IF op = "add_user_message"
                                      THEN HumanMessage(t) ELSE AIMessage(t)]]
       \/ threads' = [threads EXCEPT ![t] =
                [@ EXCEPT !.pc = "c241", !.op = "cleanup_expired_sessions"]]
    /\ UNCHANGED <<storeVars, clock, heap>>
    /\ ConcFrame

\* line 74: if session_id not in self.sessions
a74(t) ==
    /\ threads[t].pc = "a74"
    /\ Step(t, IF threads[t].session_id \notin DOMAIN sessions THEN "g50" ELSE "a77")
    /\ UNCHANGED <<storeVars, clock, heap>>
    /\ ConcFrame

\* line 75 -> line 50: self._maybe_auto_cleanup() inside get_or_create_session
g50(t) ==
    /\ threads[t].pc = "g50"
    /\ LET st == MaybeAutoCleanup(Store, clock, FALSE).store
       IN  /\ sessions' = st.sessions
           /\ operation_count' = st.operation_count
           /\ cleanup_stats' = st.cleanup_stats
    /\ Step(t, "g52")
    /\ UNCHANGED <<clock, heap>>
    /\ ConcFrame

\* lines 52-55: the id is in the store: refresh last_accessed and return it
g52(t) ==
    /\ threads[t].pc = "g52"
    /\ IF Truthy(threads[t].session_id) /\ threads[t].session_id \in DOMAIN sessions
       THEN /\ sessions' = [sessions EXCEPT
                              ![threads[t].session_id].last_accessed = clock]
            /\ Step(t, "a77")
       ELSE /\ UNCHANGED sessions
            /\ Step(t, "g59")
    /\ UNCHANGED <<operation_count, cleanup_stats, clock, heap>>
    /\ ConcFrame

\* lines 58-64: create the session with a new InMemoryChatMessageHistory
g59(t) ==
    /\ threads[t].pc = "g59"
    /\ heap' = Append(heap, << >>)
    /\ sessions' = With(sessions, threads[t].session_id,
                        [chat_history |-> Len(heap) + 1,
                         created_at |-> clock, last_accessed |-> clock])
    /\ Step(t, "a77")
    /\ UNCHANGED <<operation_count, cleanup_stats, clock>>
    /\ ConcFrame

\* line 77: chat_history = self.sessions[session_id]['chat_history']
a77(t) ==
    /\ threads[t].pc = "a77"
    /\ IF threads[t].session_id \in DOMAIN sessions
       THEN threads' = [threads EXCEPT ![t] =
                [@ EXCEPT !.pc = "a78",
                          !.chat_history = sessions[threads[t].session_id].chat_history]]
       ELSE Step(t, "KeyError")
    /\ UNCHANGED <<storeVars, clock, heap>>
    /\ ConcFrame

\* line 78: chat_history.add_message(HumanMessage(content=message))
a78(t) ==
    /\ threads[t].pc = "a78"
    /\ heap' = [heap EXCEPT ![threads[t].chat_history] = Append(@, threads[t].message)]
    /\ Step(t, "a81")
    /\ UNCHANGED <<storeVars, clock>>
    /\ ConcFrame

\* line 81: self.sessions[session_id]['last_accessed'] = time.time()
a81(t) ==
    /\ threads[t].pc = "a81"
    /\ IF threads[t].session_id \in DOMAIN sessions
       THEN /\ sessions' = [sessions EXCEPT
                              ![threads[t].session_id].last_accessed = clock]
            /\ Step(t, "t295")
       ELSE /\ UNCHANGED sessions
            /\ Step(t, "KeyError")
    /\ UNCHANGED <<operation_count, cleanup_stats, clock, heap>>
    /\ ConcFrame

\* line 84 -> lines 295-296: if session_id not in self.sessions: return
t295(t) ==
    /\ threads[t].pc = "t295"
    /\ Step(t, IF threads[t].session_id \notin DOMAIN sessions THEN "a87" ELSE "t298")
    /\ UNCHANGED <<storeVars, clock, heap>>
    /\ ConcFrame

\* lines 298-299: messages = self.sessions[session_id]['chat_history'].messages
t298(t) ==
    /\ threads[t].pc = "t298"
    /\ IF threads[t].session_id \in DOMAIN sessions
       THEN threads' = [threads EXCEPT ![t] =
                [@ EXCEPT !.pc = "t301",
                          !.messages = sessions[threads[t].session_id].chat_history]]
       ELSE Step(t, "KeyError")
    /\ UNCHANGED <<storeVars, clock, heap>>
    /\ ConcFrame

\* lines 301-314: the length test and messages_to_remove
t301(t) ==
    /\ threads[t].pc = "t301"
    /\ LET len == Len(heap[threads[t].messages])
           n == MessagesToRemove(len, max_messages)
       IN  IF len <= max_messages \/ n <= 0
           THEN Step(t, "a87")
           ELSE threads' = [threads EXCEPT ![t] =
                    [@ EXCEPT !.pc = "t316", !.messages_to_remove = n]]
    /\ UNCHANGED <<storeVars, clock, heap>>
    /\ ConcFrame

\* lines 316-318: new_history filled from messages[messages_to_remove:]
t316(t) ==
    /\ threads[t].pc = "t316"
    /\ LET messages == heap[threads[t].messages]
       IN  threads' = [threads EXCEPT ![t] =
                [@ EXCEPT !.pc = "t320",
                          !.new_history = SubSeq(messages,
                                                 threads[t].messages_to_remove + 1,
                                                 Len(messages))]]
    /\ UNCHANGED <<storeVars, clock, heap>>
    /\ ConcFrame

\* line 320: self.sessions[session_id]['chat_history'] = new_history
t320(t) ==
    /\ threads[t].pc = "t320"
    /\ IF threads[t].session_id \in DOMAIN sessions
       THEN /\ heap' = Append(heap, threads[t].new_history)
            /\ sessions' = [sessions EXCEPT
                              ![threads[t].session_id].chat_history = Len(heap) + 1]
            /\ Step(t, "a87")
       ELSE /\ UNCHANGED <<heap, sessions>>
            /\ Step(t, "KeyError")
    /\ UNCHANGED <<operation_count, cleanup_stats, clock>>
    /\ ConcFrame

\* line 87: self._maybe_auto_cleanup()
a87(t) ==
    /\ threads[t].pc = "a87"
    /\ LET st == MaybeAutoCleanup(Store, clock, FALSE).store
       IN  /\ sessions' = st.sessions
           /\ operation_count' = st.operation_count
           /\ cleanup_stats' = st.cleanup_stats
    /\ Step(t, "done")
    /\ UNCHANGED <<clock, heap>>
    /\ ConcFrame

\* lines 241-246: collect the ids whose last_accessed is a timeout ago
c241(t) ==
    /\ threads[t].pc = "c241"
    /\ threads' = [threads EXCEPT ![t] =
            [@ EXCEPT !.pc = "c249",
                      !.expired_sessions =
                          {session_id \in DOMAIN sessions :
                              IsExpired(sessions[session_id], clock)}]]
    /\ UNCHANGED <<storeVars, clock, heap>>
    /\ ConcFrame

\* lines 249-250: del self.sessions[session_id], one id per step
c249(t) ==
    /\ threads[t].pc = "c249"
    /\ threads[t].expired_sessions # {}
    /\ \E session_id \in threads[t].expired_sessions :
            IF session_id \in DOMAIN sessions
            THEN /\ sessions' = Without(sessions, {session_id})
                 /\ Step(t, "c249")
            ELSE /\ UNCHANGED sessions
                 /\ Step(t, "KeyError")
    /\ UNCHANGED <<operation_count, cleanup_stats, clock, heap>>
    /\ ConcFrame

\* lines 253-257: the statistics, once every collected id is deleted
c253(t) ==
    /\ threads[t].pc = "c249"
    /\ \A session_id \in threads[t].expired_sessions : session_id \notin DOMAIN sessions
    /\ LET n == Cardinality(threads[t].expired_sessions)
       IN  cleanup_stats' =
               IF n > 0
               THEN [total_cleanups |-> cleanup_stats.total_cleanups + 1,
                     total_expired_removed |-> cleanup_stats.total_expired_removed + n]
               ELSE cleanup_stats
    /\ Step(t, "done")
    /\ UNCHANGED <<sessions, operation_count, clock, heap>>
    /\ ConcFrame

\* time passes while the threads run
ConcTick ==
    /\ Tick
    /\ UNCHANGED <<pairsVars, concVars, ragVars, turnsVars>>

NextConc ==
    \/ ConcTick
    \/ \E t \in ThreadIds :
        \/ Call(t)
        \/ a74(t) \/ g50(t) \/ g52(t) \/ g59(t)
        \/ a77(t) \/ a78(t) \/ a81(t)
        \/ t295(t) \/ t298(t) \/ t301(t) \/ t316(t) \/ t320(t)
        \/ a87(t)
        \/ c241(t) \/ c249(t) \/ c253(t)

SpecConc == InitConc /\ [][NextConc]_vars

----------------------------------------------------------------------------
(* AtlanRAG: scores, keyword_search, merge_and_rerank, search_documents,   *)
(* generate_rag_response, answer_question (rag_pipeline.py)                *)

\* TOP_K, rag_pipeline.py:49
TOP_K == 5
\* SCORE_THRESHOLD = 0.3 in tenths, rag_pipeline.py:50
SCORE_THRESHOLD == 3

\* Scores are floats in the code and exact fractions [n, d] (d > 0, lowest
\* terms) here.  Raw scores are given in tenths; weights are given in tenths.
RECURSIVE GCD(_, _)
GCD(a, b) == IF b = 0 THEN a ELSE GCD(b, a % b)
Abs(x) == IF x < 0 THEN -x ELSE x
Rat(n, d) ==
    LET g == GCD(Abs(n), d)
    IN  IF n = 0 THEN [n |-> 0, d |-> 1] ELSE [n |-> n \div g, d |-> d \div g]
Tenths(k) == Rat(k, 10)
RatAdd(a, b) == Rat(a.n * b.d + b.n * a.d, a.d * b.d)
RatSub(a, b) == Rat(a.n * b.d - b.n * a.d, a.d * b.d)
RatMul(a, b) == Rat(a.n * b.n, a.d * b.d)
\* a / b for b > 0
RatDiv(a, b) == Rat(a.n * b.d, a.d * b.n)
RatLess(a, b) == a.n * b.d < b.n * a.d
RatLeq(a, b) == a.n * b.d <= b.n * a.d
Zero == [n |-> 0, d |-> 1]
One == [n |-> 1, d |-> 1]

\* a dict with key k set to v
SetKey(r, k, v) == [x \in DOMAIN r \cup {k} |-> IF x = k THEN v ELSE r[x]]

\* A text is held as its first 100 characters (prefix) and what follows (rest)
Text(p, r) == [prefix |-> p, rest |-> r]
\* line 203, 215: result["text"][:100]
TextKey(text) == text.prefix

\* a sort that puts equal keys in reverse of their original order
SortedIndicesDesc_Unstable(keys) ==
    LET n == Len(keys)
        Before(j, i) == RatLess(keys[i], keys[j]) \/ (keys[j] = keys[i] /\ j > i)
        Rank(i) == Cardinality({j \in 1..n : Before(j, i)}) + 1
    IN  [p \in 1..n |-> CHOOSE i \in 1..n : Rank(i) = p]

\* sorted(range(len(keys)), key=lambda i: keys[i], reverse=True): Python's sort
\* is stable, and with reverse=True equal keys keep their original order
SortedIndicesDesc(keys) ==
    LET n == Len(keys)
        Before(j, i) == RatLess(keys[i], keys[j]) \/ (keys[j] = keys[i] /\ j < i)
        Rank(i) == Cardinality({j \in 1..n : Before(j, i)}) + 1
    IN  [p \in 1..n |-> CHOOSE i \in 1..n : Rank(i) = p]

\* s[:n]
Take(s, n) == SubSeq(s, 1, Min(n, Len(s)))

\* line 152: top_indices
TopIndices(scores, k) == Take(SortedIndicesDesc(scores), k)

\* lines 155-156: the indices of top_indices whose score is positive
PositiveIndices(scores, indices) ==
    SelectSeq(indices, LAMBDA idx : RatLess(Zero, scores[idx]))

\* lines 142-170: keyword_search; docs and scores are self.document_texts with
\* its metadata and what get_scores returned; no index (line 144) gives []
KeywordSearch(cfg, docs, scores, k) ==
    IF Len(docs) = 0 \/ ~cfg.ENABLE_HYBRID_SEARCH
    THEN << >>
    ELSE LET hits == PositiveIndices(scores, TopIndices(scores, k))
         IN  [i \in 1..Len(hits) |->
                [text |-> docs[hits[i]].text,
                 source_url |-> docs[hits[i]].source_url,
                 score |-> scores[hits[i]],
                 search_type |-> "keyword"]]

\* lines 266-303: _vector_search; hits is what qdrant_client.search returned
\* (nothing when the embedding or the search failed)
VectorSearch(hits) ==
    [i \in 1..Len(hits) |->
        [text |-> hits[i].text,
         source_url |-> hits[i].source_url,
         score |-> hits[i].score,
         search_type |-> "vector"]]

RatMax(S) == CHOOSE x \in S : \A y \in S : RatLeq(y, x)
RatMin(S) == CHOOSE x \in S : \A y \in S : RatLeq(x, y)

\* lines 178-192: normalize_scores
NormalizeScores(results) ==
    IF Len(results) = 0
    THEN results
    ELSE LET scores == {results[i].score : i \in 1..Len(results)}
             max_score == RatMax(scores)
             min_score == RatMin(scores)
         IN  IF max_score = min_score
             THEN results
             ELSE [i \in 1..Len(results) |->
                     SetKey(results[i], "normalized_score",
                            RatDiv(RatSub(results[i].score, min_score),
                                   RatSub(max_score, min_score)))]

\* a merge that weights the raw score also when a normalized one was computed
ScoreOf_Raw(result) == result.score

\* result.get("normalized_score", result["score"])
ScoreOf(result) ==
    IF "normalized_score" \in DOMAIN result
    THEN result.normalized_score
    ELSE result.score

\* a merge in which a later hit of the same key replaces the score
Combine_Replace(combined, result, weight, tag) ==
    LET text_key == TextKey(result.text)
        found == {j \in 1..Len(combined) : TextKey(combined[j].text) = text_key}
        contribution == RatMul(ScoreOf(result), Tenths(weight))
    IN  IF found = {}
        THEN Append(combined,
                    SetKey(SetKey(result, "final_score", contribution),
                           "search_types", <<tag>>))
        ELSE LET j == CHOOSE j \in found : TRUE
             IN  [combined EXCEPT
                    ![j] = SetKey(SetKey(@, "final_score", contribution),
                                  "search_types", Append(@.search_types, tag))]

\* lines 203-211 (215-223): one result put into combined_results, a dict kept
\* as the sequence of its values in insertion order
Combine(combined, result, weight, tag) ==
    LET text_key == TextKey(result.text)
        found == {j \in 1..Len(combined) : TextKey(combined[j].text) = text_key}
        contribution == RatMul(ScoreOf(result), Tenths(weight))
    IN  IF found = {}
        THEN Append(combined,
                    SetKey(SetKey(result, "final_score", contribution),
                           "search_types", <<tag>>))
        ELSE LET j == CHOOSE j \in found : TRUE
             IN  [combined EXCEPT
                    ![j] = SetKey(SetKey(@, "final_score",
                                         RatAdd(@.final_score, contribution)),
                                  "search_types", Append(@.search_types, tag))]

\* the loops of lines 202 and 214
RECURSIVE CombineAll(_, _, _, _)
CombineAll(combined, results, weight, tag) ==
    IF Len(results) = 0
    THEN combined
    ELSE CombineAll(Combine(combined, Head(results), weight, tag),
                    Tail(results), weight, tag)

\* lines 198-223: combined_results.values()
CombinedResults(cfg, vector_results, kw_results) ==
    CombineAll(CombineAll(<< >>, NormalizeScores(vector_results),
                          cfg.HYBRID_VECTOR_WEIGHT, "vector"),
               NormalizeScores(kw_results), cfg.HYBRID_KEYWORD_WEIGHT, "keyword")

\* line 226: sorted(..., key=final_score, reverse=True)[:TOP_K]
RankAndCut(combined) ==
    LET order == SortedIndicesDesc([i \in 1..Len(combined) |-> combined[i].final_score])
    IN  Take([p \in 1..Len(combined) |-> combined[order[p]]], TOP_K)

\* lines 172-228: merge_and_rerank
MergeAndRerank(cfg, vector_results, kw_results) ==
    IF ~cfg.ENABLE_HYBRID_SEARCH
    THEN vector_results
    ELSE RankAndCut(CombinedResults(cfg, vector_results, kw_results))

\* a search_documents that merges whenever hybrid search is enabled
SearchDocuments_AlwaysMerge(cfg, vector_results, kw_results) ==
    IF cfg.ENABLE_HYBRID_SEARCH
    THEN MergeAndRerank(cfg, vector_results, kw_results)
    ELSE vector_results

\* lines 258-264 of search_documents: merge when the keyword channel has results
SearchDocuments(cfg, vector_results, kw_results) ==
    IF cfg.ENABLE_HYBRID_SEARCH /\ Len(kw_results) > 0
    THEN MergeAndRerank(cfg, vector_results, kw_results)
    ELSE vector_results

\* lines 305-316: extract_unique_sources
RECURSIVE ExtractUniqueSources(_, _)
ExtractUniqueSources(results, sources) ==
    IF Len(results) = 0
    THEN sources
    ELSE LET url == Head(results).source_url
         IN  ExtractUniqueSources(
                Tail(results),
                IF url # "" /\ \A i \in 1..Len(sources) : sources[i] # url
                THEN Append(sources, url) ELSE sources)

\* line 321: the answer when nothing was retrieved
NoInformationAnswer ==
    "I couldn't find relevant information in the Atlan documentation to answer your question."
\* lines 371, 374, 377: the answers when the language model call raised
ConnectionErrorAnswer ==
    "I'm having trouble connecting to the AI service. Please try again in a moment."
ValueErrorAnswer ==
    "I encountered an issue with your request format. Please try rephrasing your question."
UnexpectedErrorAnswer ==
    "I encountered an unexpected error while generating a response. Please try again."
\* line 368: what the language model wrote
GeneratedAnswer == "response.choices[0].message.content"

\* what chat.completions.create can do
LlmOutcomes == {"ok", "ConnectionError", "ValueError", "Exception"}

\* a generate_rag_response without the except clauses of lines 369-377: what
\* the language model call raised leaves the function
GenerateRagResponse_NoExcept(context_docs, outcome) ==
    IF Len(context_docs) = 0
    THEN [answer |-> NoInformationAnswer, calls |-> 0]
    ELSE IF outcome = "ok"
         THEN [answer |-> GeneratedAnswer, calls |-> 1]
         ELSE [raised |-> outcome, calls |-> 1]

\* a generate_rag_response without the test of line 320
GenerateRagResponse_AlwaysCalls(context_docs, outcome) ==
    [answer |-> CASE outcome = "ok" -> GeneratedAnswer
                  [] outcome = "ConnectionError" -> ConnectionErrorAnswer
                  [] outcome = "ValueError" -> ValueErrorAnswer
                  [] OTHER -> UnexpectedErrorAnswer,
     calls |-> 1]

\* lines 318-377: generate_rag_response; [answer, calls]
GenerateRagResponse(context_docs, outcome) ==
    IF Len(context_docs) = 0
    THEN [answer |-> NoInformationAnswer, calls |-> 0]
    ELSE [answer |-> CASE outcome = "ok" -> GeneratedAnswer
                       [] outcome = "ConnectionError" -> ConnectionErrorAnswer
                       [] outcome = "ValueError" -> ValueErrorAnswer
                       [] OTHER -> UnexpectedErrorAnswer,
          calls |-> 1]

\* lines 387-395: the channel tags of the results
SearchMethodsUsed(results) ==
    UNION {IF "search_types" \in DOMAIN results[i]
           THEN {results[i].search_types[j] : j \in 1..Len(results[i].search_types)}
           ELSE {results[i].search_type} : i \in 1..Len(results)}

----------------------------------------------------------------------------
(* SpecRag: one query through search_documents or answer_question.  The    *)
(* query's embedding, the Qdrant collection and the BM25 statistics are    *)
(* outside the program: the state holds what qdrant_client.search and      *)
(* bm25_index.get_scores give for the query.  The module constants         *)
(* ENABLE_HYBRID_SEARCH and the two weights are configuration and range    *)
(* over Settings, which contains the values of lines 57-59.                *)

MaxTopK == 2
MaxHits == 2
MaxDocs == 3
WideNewDocs == 4

Settings ==
    { [ENABLE_QUERY_ENHANCEMENT |-> FALSE, ENABLE_HYBRID_SEARCH |-> hybrid,
       HYBRID_VECTOR_WEIGHT |-> w[1], HYBRID_KEYWORD_WEIGHT |-> w[2]] :
      <<hybrid, w>> \in {<<TRUE, <<10, 0>>>>, <<TRUE, <<7, 3>>>>, <<TRUE, <<0, 10>>>>,
                          <<FALSE, <<10, 0>>>>} }

\* chunks: the first two share their first 100 characters
Docs ==
    { [text |-> Text(1, 1), source_url |-> "a"],
      [text |-> Text(1, 2), source_url |-> "b"],
      [text |-> Text(2, 1), source_url |-> "a"] }

\* similarity scores Qdrant can report (at least score_threshold), in tenths
VectorScores == {SCORE_THRESHOLD, 10}
\* BM25 scores, in tenths
Bm25Scores == {0, 5, 25}

\* the lists of at most n different elements of S
ListsOf(S, n) ==
    UNION { {q \in [1..k -> S] : \A i, j \in 1..k : i # j => q[i] # q[j]} :
            k \in 0..Min(n, Cardinality(S)) }

\* what qdrant_client.search(limit=k, score_threshold=SCORE_THRESHOLD) can
\* give: at most k points, best first, none under the threshold
QdrantAnswers(k) ==
    UNION { { [i \in 1..Len(q) |->
                 [text |-> q[i].text, source_url |-> q[i].source_url,
                  score |-> Tenths(sc[i])]] :
              sc \in {x \in [1..Len(q) -> VectorScores] :
                        \A i \in 1..Len(q) - 1 : x[i] >= x[i + 1]} } :
            q \in ListsOf(Docs, Min(k, MaxHits)) }

\* _initialize_bm25_index, lines 70-106: without hybrid search no index is
\* built and document_texts stays empty
Corpora(cfg) == IF cfg.ENABLE_HYBRID_SEARCH THEN ListsOf(Docs, MaxDocs) ELSE {<< >>}

ManagerIdle ==
    /\ max_messages = 2
    /\ session_timeout = SecondsPerMinute
    /\ auto_cleanup_interval = 1
    /\ StoreInit

\* small corpora, every score vector, every answer of Qdrant
InitSmall ==
    /\ settings \in Settings
    /\ faults = {}
    /\ top_k \in (1..MaxTopK) \cup {TOP_K}
    /\ document_texts \in Corpora(settings)
    /\ bm25_scores \in {[i \in 1..Len(document_texts) |-> Tenths(x[i])] :
                          x \in [1..Len(document_texts) -> Bm25Scores]}
    /\ qdrant_hits \in QdrantAnswers(top_k)

WideDoc(i) == [text |-> Text(i, 1), source_url |-> "a"]

\* more different chunks than TOP_K: Qdrant gives top_k chunks, the corpus
\* holds one of them and WideNewDocs others
InitWide ==
    /\ settings \in {cfg \in Settings : cfg.ENABLE_HYBRID_SEARCH}
    /\ faults = {}
    /\ top_k \in {TOP_K, TOP_K + 1}
    /\ qdrant_hits = [i \in 1..top_k |->
                        [text |-> WideDoc(i).text, source_url |-> WideDoc(i).source_url,
                         score |-> Tenths(SCORE_THRESHOLD + top_k - i)]]
    /\ \E shared \in 1..top_k :
          document_texts = <<WideDoc(shared)>> \o [j \in 1..WideNewDocs |-> WideDoc(top_k + j)]
    /\ \E x \in {1, 30} :
          bm25_scores = <<Tenths(x)>> \o [j \in 1..WideNewDocs |-> Tenths(5 * j)]

\* the services a query depends on: the chat completion of enhance_query, the
\* embedding model, Qdrant's search and the BM25 index's get_scores
Services == {"enhancement", "embedding", "qdrant", "bm25"}

\* some services fail; query enhancement is switched on or off; at most one
\* document and at most one Qdrant point
InitFaulty ==
    /\ settings \in {[cfg EXCEPT !.ENABLE_QUERY_ENHANCEMENT = on] :
                        cfg \in Settings, on \in BOOLEAN}
    /\ faults \in SUBSET Services
    /\ faults = {} => settings.ENABLE_QUERY_ENHANCEMENT
    /\ top_k \in {1, TOP_K}
    /\ document_texts \in {c \in Corpora(settings) : Len(c) <= 1}
    /\ bm25_scores \in {[i \in 1..Len(document_texts) |-> Tenths(x[i])] :
                          x \in [1..Len(document_texts) -> Bm25Scores]}
    /\ qdrant_hits \in {q \in QdrantAnswers(top_k) : Len(q) <= 1}

InitRag ==
    /\ ManagerIdle
    /\ PairsOff
    /\ ConcOff
    /\ TurnsOff
    /\ InitSmall \/ InitWide \/ InitFaulty
    /\ rag_pc = "start"
    /\ keyword_results = << >>
    /\ search_results = << >>
    /\ response = [answer |-> "none"]
    /\ llm_calls = 0
    /\ enhanced_query = None
    /\ llm_outcome = None

RagFrame ==
    UNCHANGED <<settings, faults, document_texts, bm25_scores, qdrant_hits, top_k>>

\* lines 108-140: enhance_query; the query itself when enhancement is off or
\* its chat completion raised
EnhanceQuery(cfg, failed) ==
    IF ~cfg.ENABLE_QUERY_ENHANCEMENT
    THEN "query"
    ELSE IF "enhancement" \in failed THEN "query" ELSE "enhanced"

\* lines 230-243: generate_query_embedding; [] when the model raised
GenerateQueryEmbedding(failed) ==
    IF "embedding" \in failed THEN << >> ELSE <<"embedding">>

\* lines 266-303 of _vector_search: no embedding (line 270) or a search that
\* raised (lines 295-303) gives []
VectorChannel ==
    IF Len(GenerateQueryEmbedding(faults)) = 0
    THEN << >>
    ELSE IF "qdrant" \in faults THEN << >> ELSE VectorSearch(qdrant_hits)

\* lines 251-256 of search_documents: the keyword channel; get_scores that
\* raised gives [] (lines 168-170)
KeywordChannel ==
    IF settings.ENABLE_HYBRID_SEARCH
    THEN IF "bm25" \in faults
         THEN << >>
         ELSE KeywordSearch(settings, document_texts, bm25_scores, top_k)
    ELSE << >>

\* lines 245-264: search_documents(query, top_k)
search_documents ==
    /\ rag_pc = "start"
    /\ enhanced_query' = EnhanceQuery(settings, faults)
    /\ keyword_results' = KeywordChannel
    /\ search_results' = SearchDocuments(settings, VectorChannel, KeywordChannel)
    /\ rag_pc' = "searched"
    /\ RagFrame
    /\ UNCHANGED <<response, llm_calls, llm_outcome>>

\* lines 384-408 of answer_question: the dict it returns for the results of
\* search_documents.  It has no try: what line 398 raises leaves it
AnswerQuestionResult(cfg, results, outcome) ==
    LET generated == GenerateRagResponse(results, outcome)
    IN  IF "raised" \in DOMAIN generated
        THEN [raised |-> generated.raised]
        ELSE [answer |-> generated.answer,
              sources |-> ExtractUniqueSources(results, << >>),
              retrieved_chunks |-> Len(results),
              search_methods_used |-> SearchMethodsUsed(results),
              hybrid_search_enabled |-> cfg.ENABLE_HYBRID_SEARCH,
              query_enhancement_enabled |-> cfg.ENABLE_QUERY_ENHANCEMENT,
              search_results |-> results]

\* lines 379-408: answer_question(query); line 382 searches with the default
\* top_k = TOP_K
answer_question ==
    /\ rag_pc = "start"
    /\ top_k = TOP_K
    /\ \E outcome \in LlmOutcomes :
          LET results == SearchDocuments(settings, VectorChannel, KeywordChannel)
              generated == GenerateRagResponse(results, outcome)
          IN  /\ enhanced_query' = EnhanceQuery(settings, faults)
              /\ keyword_results' = KeywordChannel
              /\ search_results' = results
              /\ response' = AnswerQuestionResult(settings, results, outcome)
              /\ llm_calls' = llm_calls + generated.calls
              /\ llm_outcome' = IF generated.calls = 0 THEN None ELSE outcome
    /\ rag_pc' = "answered"
    /\ RagFrame

NextRag ==
    /\ search_documents \/ answer_question
    /\ UNCHANGED <<managerVars, pairsVars, concVars, turnsVars>>

SpecRag == InitRag /\ [][NextRag]_vars

----------------------------------------------------------------------------
(* SpecTurns: the chat handlers of src/app/main.py.  Each browser request  *)
(* runs the script in a thread of its own; the threads share the memory    *)
(* manager (get_memory_manager, memory_manager.py:370-384) and write to    *)
(* the session of conversation_session_id.  One step is one call of the    *)
(* memory manager: every call is taken as atomic here, which is what a     *)
(* lock scoped to the store would give.                                    *)
(* RAGPipeline.get_or_create_session, the two-argument                     *)
(* generate_rag_response and add_conversation_turn are not in              *)
(* rag_pipeline.py; they are taken as the session store's getOrCreate,     *)
(* a read of the session's context followed by answer_question, and the    *)
(* two appends "user query, then produced answer".                         *)

\* the requests each thread submits
MaxRequests == 1

\* ConversationMemoryManager.__init__ defaults, line 19
DefaultMaxMessages == 20
DefaultCleanupInterval == 100

\* what the user typed as the n-th request of thread t
UserText(t, n) == [by |-> t, n |-> n]

\* the subject field of the chat form: empty or filled
Subjects == {"", "subject"}

\* main.py:819: f"Subject: {subject}\n\n{message}" if subject else message
FormatInput(subject, message) ==
    IF subject # ""
    THEN [prefix |-> "Subject: ", subject |-> subject, separator |-> "\n\n",
          message |-> message]
    ELSE message

\* the answer text produced for an input: answer_question's answer (line 358
\* and 830) or generate_routing_message's text (lines 372 and 844)
ResponseContent(input_text, response_type) ==
    [to |-> input_text, response_type |-> response_type]

RequestIdle(served) ==
    [pc |-> "idle", handler |-> "none", session_id |-> None, input_text |-> None,
     response_content |-> None, next_append |-> "user", served |-> served]

\* main.py:93-99: the pipeline is built and the conversation session created
InitTurns ==
    /\ max_messages = DefaultMaxMessages
    /\ session_timeout = DefaultTimeoutMinutes * SecondsPerMinute
    /\ auto_cleanup_interval = DefaultCleanupInterval
    /\ \E uuid \in Uuids :
          LET r == GetOrCreateSession([sessions |-> << >>, operation_count |-> 0,
                                       cleanup_stats |-> [total_cleanups |-> 0,
                                                          total_expired_removed |-> 0]],
                                      None, uuid, 0)
          IN  /\ sessions = r.store.sessions
              /\ operation_count = r.store.operation_count
              /\ cleanup_stats = r.store.cleanup_stats
              /\ conversation_session_id = r.ret
    /\ clock = 0
    /\ ret = [kind |-> "none"]
    /\ requests = [t \in ThreadIds |-> RequestIdle(0)]
    /\ PairsOff
    /\ ConcOff
    /\ RagOff

TurnsFrame == UNCHANGED <<conversation_session_id, pairsVars, concVars, ragVars>>

\* lines 800-822: the chat form is submitted; session_id and input_text are set
\* and the ticket classified
chat_form(t) ==
    /\ requests[t].pc = "idle"
    /\ requests[t].served < MaxRequests
    /\ \E subject \in Subjects :
          requests' = [requests EXCEPT ![t] =
              [@ EXCEPT !.pc = "classified", !.handler = "chat_form",
                        !.session_id = conversation_session_id,
                        !.input_text = FormatInput(subject, UserText(t, requests[t].served + 1))]]
    /\ UNCHANGED managerVars
    /\ TurnsFrame

\* lines 345-355: a sample-question button is pressed
process_sample_question(t) ==
    /\ requests[t].pc = "idle"
    /\ requests[t].served < MaxRequests
    /\ requests' = [requests EXCEPT ![t] =
          [@ EXCEPT !.pc = "classified", !.handler = "process_sample_question",
                    !.session_id = conversation_session_id,
                    !.input_text = UserText(t, requests[t].served + 1)]]
    /\ UNCHANGED managerVars
    /\ TurnsFrame

\* the line of the handler's first add_conversation_turn call
FirstTurnLine(handler) == IF handler = "chat_form" THEN "l852" ELSE "l380"

\* lines 357-375 and 828-847: the response is produced, by the pipeline (which
\* reads the session's context) or by generate_routing_message
respond(t) ==
    /\ requests[t].pc = "classified"
    /\ \/ /\ get_conversation_history(requests[t].session_id)
          /\ requests' = [requests EXCEPT ![t] =
                [@ EXCEPT !.pc = FirstTurnLine(requests[t].handler),
                          !.response_content = ResponseContent(requests[t].input_text, "rag")]]
       \/ /\ UNCHANGED managerVars
          /\ requests' = [requests EXCEPT ![t] =
                [@ EXCEPT !.pc = FirstTurnLine(requests[t].handler),
                          !.response_content = ResponseContent(requests[t].input_text, "routing")]]
    /\ TurnsFrame

\* where the handler is after the add_conversation_turn call of a line:
\* process_sample_question has the call at lines 380 and 384, the chat form
\* at line 852
AfterTurnLine(pc) == IF pc = "l380" THEN "l384" ELSE "done"

\* lines 379-380, 383-384, 851-852: if session_id: add_conversation_turn(
\* session_id, input_text, response_content); one step is one of its appends
add_conversation_turn(t) ==
    /\ requests[t].pc \in {"l380", "l384", "l852"}
    /\ IF ~Truthy(requests[t].session_id)
       THEN /\ requests' = [requests EXCEPT ![t].pc = AfterTurnLine(@)]
            /\ UNCHANGED managerVars
       ELSE IF requests[t].next_append = "user"
       THEN /\ add_user_message(requests[t].session_id, requests[t].input_text)
            /\ requests' = [requests EXCEPT ![t].next_append = "ai"]
       ELSE /\ add_ai_message(requests[t].session_id, requests[t].response_content)
            /\ requests' = [requests EXCEPT ![t] =
                  [@ EXCEPT !.next_append = "user", !.pc = AfterTurnLine(@)]]
    /\ TurnsFrame

\* lines 386-419 and 854-869: the answer is shown and the script run ends
rerun(t) ==
    /\ requests[t].pc = "done"
    /\ requests' = [requests EXCEPT ![t] = RequestIdle(@.served + 1)]
    /\ UNCHANGED managerVars
    /\ TurnsFrame

NextTurns ==
    \E t \in ThreadIds :
        \/ chat_form(t)
        \/ process_sample_question(t)
        \/ respond(t)
        \/ add_conversation_turn(t)
        \/ rerun(t)

SpecTurns == InitTurns /\ [][NextTurns]_vars

----------------------------------------------------------------------------
(* SpecReads: the store with its read handlers, get_cleanup_stats and
   force_cleanup beside the handlers of Spec *)

ReadsMaxMessages == 2
MaxIncludeLastN == 1
\* include_last_n: 0 stands for None and for 0, which line 150 treats alike
IncludeLastN == 0..MaxIncludeLastN

\* lines 156-159: one line of the context
ContextPart(message) ==
    IF message.role = "user"
    THEN "User: " \o message.content
    ELSE "Assistant: " \o message.content

\* line 161: "\n".join(context_parts)
RECURSIVE JoinLines(_)
JoinLines(context_parts) ==
    IF context_parts = <<>>
    THEN ""
    ELSE IF Len(context_parts) = 1
         THEN context_parts[1]
         ELSE context_parts[1] \o "\n" \o JoinLines(Tail(context_parts))

\* line 151: messages[-include_last_n * 2:]
LastMessages(messages, include_last_n) ==
    IF include_last_n * 2 >= Len(messages)
    THEN messages
    ELSE SubSeq(messages, Len(messages) - include_last_n * 2 + 1, Len(messages))

\* lines 146-161: the context string of the messages read
ConversationContext(messages, include_last_n) ==
    IF messages = <<>>
    THEN ""
    ELSE LET recent == IF include_last_n # 0
                       THEN LastMessages(messages, include_last_n)
                       ELSE messages
         IN  JoinLines([i \in 1..Len(recent) |-> ContextPart(recent[i])])

\* get_conversation_context(session_id, include_last_n), lines 133-161
get_conversation_context(session_id, include_last_n) ==
    LET r == GetConversationHistory(Store, session_id, clock)
    IN  /\ ~r.raised
        /\ Commit(r.store, [kind |-> "context",
                            val |-> ConversationContext(r.ret, include_last_n)])

\* lines 207-216: the dict get_session_info returns for a session in the store
SessionInfo(sess, session_id, current_time) ==
    [session_id |-> session_id,
     message_count |-> Len(sess[session_id].chat_history),
     created_at |-> sess[session_id].created_at,
     last_accessed |-> sess[session_id].last_accessed,
     is_active |-> IsActive(sess[session_id], current_time)]

\* get_session_info(session_id), lines 194-216
get_session_info(session_id) ==
    IF session_id \notin DOMAIN sessions
    THEN Commit(Store, [kind |-> "none"])
    ELSE Commit(Store, [kind |-> "info", val |-> SessionInfo(sessions, session_id, clock)])

\* get_cleanup_stats(), lines 341-354
get_cleanup_stats ==
    Commit(Store,
           [kind |-> "cleanup_stats",
            val |-> [total_cleanup_operations |-> cleanup_stats.total_cleanups,
                     total_expired_sessions_removed |-> cleanup_stats.total_expired_removed,
                     auto_cleanup_interval |-> auto_cleanup_interval,
                     current_operation_count |-> operation_count,
                     next_cleanup_in |-> Max(0, auto_cleanup_interval - operation_count)]])

\* a force_cleanup that calls the sweep itself and leaves the counter
force_cleanup_DirectSweep ==
    LET r == CleanupExpiredSessions(Store, clock)
    IN  Commit(r.store, [kind |-> "count", val |-> r.ret])

\* force_cleanup(), lines 356-363
force_cleanup ==
    LET r == MaybeAutoCleanup(Store, clock, TRUE)
    IN  Commit(r.store, [kind |-> "count", val |-> r.ret])

InitReads ==
    /\ max_messages = ReadsMaxMessages
    /\ session_timeout = SecondsPerMinute
    /\ auto_cleanup_interval \in 1..MaxCleanupInterval
    /\ StoreInit /\ PairsOff /\ ConcOff /\ RagOff /\ TurnsOff

NextReads ==
    /\ \/ NextManager
       \/ \E session_id \in IdArgs, include_last_n \in IncludeLastN :
              get_conversation_context(session_id, include_last_n)
       \/ \E session_id \in IdArgs : get_session_info(session_id)
       \/ get_cleanup_stats
       \/ force_cleanup
    /\ UNCHANGED <<pairsVars, concVars, ragVars, turnsVars>>

SpecReads == InitReads /\ [][NextReads]_vars

----------------------------------------------------------------------------
(* Claims about the store under Spec *)

\* C1: whenever a call has completed, every session in the store holds at
\* most max_messages messages (max_messages >= 2).
C1_HistoryBounded ==
    \A session_id \in DOMAIN sessions :
        Len(sessions[session_id].chat_history) <= max_messages

\* an append has completed on a session that is full, with another session
\* beside it
C1_Witness ==
    /\ ret.kind = "none"
    /\ \E session_id \in DOMAIN sessions :
            Len(sessions[session_id].chat_history) = max_messages
    /\ Cardinality(DOMAIN sessions) = 2

\* C3: get_or_create_session on an id that is in the store returns that id,
\* keeps the session's messages and created_at, and sets last_accessed to now.
C3_GetExistingKeepsSession ==
    [][\A session_id \in DOMAIN sessions :
          get_or_create_session(session_id) =>
              /\ ret'.val = session_id
              /\ session_id \in DOMAIN sessions'
              /\ sessions'[session_id].chat_history = sessions[session_id].chat_history
              /\ sessions'[session_id].created_at = sessions[session_id].created_at
              /\ sessions'[session_id].last_accessed = clock]_vars

\* C4: the sweep removes exactly the sessions with now - last_accessed >=
\* session_timeout, returns their number, leaves the others as they were, and
\* list_active_sessions at the same time is exactly what the sweep keeps.
C4_SweepRemovesExactlyExpired ==
    [][cleanup_expired_sessions =>
          LET gone == {session_id \in DOMAIN sessions :
                          clock - sessions[session_id].last_accessed >= session_timeout}
          IN  /\ DOMAIN sessions' = DOMAIN sessions \ gone
              /\ ret'.val = Cardinality(gone)
              /\ \A session_id \in DOMAIN sessions' :
                    sessions'[session_id] = sessions[session_id]
              /\ list_active_sessions(sessions, clock) = DOMAIN sessions']_vars

\* a sweep has just removed a session and kept another, which has messages
C4_Witness ==
    /\ ret.kind = "count"
    /\ ret.val = 1
    /\ \E session_id \in DOMAIN sessions :
            /\ Len(sessions[session_id].chat_history) > 0
            /\ sessions[session_id].last_accessed < clock

\* C14: under a clock that never goes back, no store operation lowers the
\* last_accessed of the session stored under an id that stays in the store,
\* and created_at <= last_accessed holds for every session
C14_LastAccessedMonotonic ==
    [][/\ \A session_id \in DOMAIN sessions \cap DOMAIN sessions' :
             sessions'[session_id].last_accessed >= sessions[session_id].last_accessed
       /\ \A session_id \in DOMAIN sessions' :
             sessions'[session_id].created_at <= sessions'[session_id].last_accessed]_vars

\* clear_session has just refreshed a session that was created earlier
C14_Witness ==
    /\ ret = [kind |-> "bool", val |-> TRUE]
    /\ \E session_id \in DOMAIN sessions :
            /\ sessions[session_id].chat_history = << >>
            /\ sessions[session_id].created_at < sessions[session_id].last_accessed
            /\ sessions[session_id].last_accessed = clock

\* C15: in the statistics get_memory_stats returns, total_sessions equals
\* active_sessions and expired_sessions is 0, total_messages is the number of
\* messages of the sessions left in the store, and the operation counter is 0
\* after the call
C15_StatsAfterSweep ==
    [][(ret'.kind = "stats" /\ get_memory_stats) =>
          /\ ret'.val.total_sessions = ret'.val.active_sessions
          /\ ret'.val.expired_sessions = 0
          /\ ret'.val.total_messages = TotalMessages(sessions')
          /\ operation_count' = 0]_vars

\* the step leaves in the store no session whose timeout had elapsed, other
\* than those it accessed
NoExpiredLeft ==
    \A session_id \in DOMAIN sessions \cap DOMAIN sessions' :
        sessions'[session_id].last_accessed = sessions[session_id].last_accessed
            => ~IsExpired(sessions[session_id], clock)

\* what a counted store operation does to the counter and the store: when
\* the counter reaches auto_cleanup_interval it sweeps and starts the
\* counter again, otherwise it moves the counter on
CountedOperation ==
    /\ operation_count' < auto_cleanup_interval
    /\ IF operation_count + 1 >= auto_cleanup_interval
       THEN NoExpiredLeft
       ELSE operation_count' > operation_count \/ (operation_count' = 0 /\ NoExpiredLeft)

\* C16: every get_or_create_session call increments the operation counter,
\* and the call on which the counter reaches auto_cleanup_interval sweeps
\* before it returns; every counted operation (get_or_create_session, an
\* append, a history read of a stored session) moves the counter on in the
\* same way, so that a session whose timeout has elapsed and that is not
\* accessed again is out of the store after at most auto_cleanup_interval
\* counted operations
C16_PeriodicReclamation ==
    [][/\ \A session_id \in IdArgs :
             (ret'.kind = "id" /\ clock' = clock /\ get_or_create_session(session_id)) =>
                /\ CountedOperation
                /\ IF operation_count + 1 >= auto_cleanup_interval
                   THEN operation_count' = 0
                   ELSE operation_count' = operation_count + 1 /\ DOMAIN sessions \subseteq DOMAIN sessions'
       /\ \A session_id \in IdArgs, message \in Contents :
             (/\ ret'.kind = "none"
              /\ clock' = clock
              /\ add_user_message(session_id, message) \/ add_ai_message(session_id, message))
                => CountedOperation
       /\ \A session_id \in DOMAIN sessions :
             (ret'.kind = "messages" /\ clock' = clock /\ get_conversation_history(session_id))
                => CountedOperation]_vars

\* the second get_or_create_session since the last sweep has swept away the
\* one session there was, whose timeout had elapsed
C16_Witness ==
    /\ auto_cleanup_interval = 2
    /\ ret.kind = "id"
    /\ operation_count = 0
    /\ cleanup_stats = [total_cleanups |-> 1, total_expired_removed |-> 1]
    /\ DOMAIN sessions = {ret.val}
    /\ sessions[ret.val].created_at = clock
    /\ clock >= session_timeout

\* C17: clear_session on a session in the store empties its history, keeps
\* its entry and created_at, leaves every other session as it was and returns
\* True; on an id that is not in the store it returns False, creates no
\* session and leaves the store as it was
C17_ClearKeepsEntry ==
    [][\A session_id \in IdArgs :
          (ret'.kind = "bool" /\ clock' = clock /\ clear_session(session_id)) =>
              IF session_id \in DOMAIN sessions
              THEN /\ ret'.val = TRUE
                   /\ DOMAIN sessions' = DOMAIN sessions
                   /\ sessions'[session_id].chat_history = << >>
                   /\ sessions'[session_id].created_at = sessions[session_id].created_at
                   /\ \A other \in DOMAIN sessions \ {session_id} :
                         sessions'[other] = sessions[other]
              ELSE /\ ret'.val = FALSE
                   /\ sessions' = sessions]_vars

\* clear_session has emptied a session that was created earlier, beside a
\* session that has messages
C17_Witness ==
    /\ ret = [kind |-> "bool", val |-> TRUE]
    /\ \E session_id, other \in DOMAIN sessions :
            /\ sessions[session_id].chat_history = << >>
            /\ sessions[session_id].created_at < clock
            /\ sessions[session_id].last_accessed = clock
            /\ Len(sessions[other].chat_history) > 0

\* C18: delete_session on a session in the store removes that entry only and
\* returns True; on an id that is not in the store it returns False and
\* leaves the store as it was.  For an id that is not in the store (as after
\* its deletion) get_conversation_history returns the empty list and an
\* append starts a new session whose history is the appended message alone
C18_DeleteRemovesEntry ==
    [][/\ \A session_id \in IdArgs :
             (ret'.kind = "bool" /\ clock' = clock /\ delete_session(session_id)) =>
                 IF session_id \in DOMAIN sessions
                 THEN /\ ret'.val = TRUE
                      /\ DOMAIN sessions' = DOMAIN sessions \ {session_id}
                      /\ \A other \in DOMAIN sessions' : sessions'[other] = sessions[other]
                 ELSE /\ ret'.val = FALSE
                      /\ sessions' = sessions
       /\ \A session_id \in (CallerIds \cup Uuids) \ DOMAIN sessions :
             /\ (ret'.kind = "messages" /\ get_conversation_history(session_id)) =>
                    (ret'.val = << >> /\ sessions' = sessions)
             /\ \A message \in Contents :
                    (ret'.kind = "none" /\ clock' = clock /\ add_user_message(session_id, message)) =>
                        /\ session_id \in DOMAIN sessions'
                        /\ sessions'[session_id].chat_history = <<HumanMessage(message)>>
                        /\ sessions'[session_id].created_at = clock]_vars

\* delete_session has removed the only session of a store in which no sweep
\* has removed any
C18_Witness ==
    /\ ret = [kind |-> "bool", val |-> TRUE]
    /\ sessions = << >>
    /\ cleanup_stats.total_expired_removed = 0

\* a new session, created now
NewSession == [chat_history |-> << >>, created_at |-> clock, last_accessed |-> clock]

\* C25 as stated: get_or_create_session with an id that is not in the store
\* makes a new session under a freshly generated id, which is neither in the
\* store before the call nor the id supplied, and returns that id
C25_UnknownIdGetsFreshId ==
    [][\A session_id \in (CallerIds \cup Uuids) \ DOMAIN sessions :
          (ret'.kind = "id" /\ clock' = clock /\ get_or_create_session(session_id)) =>
              /\ ret'.val \notin DOMAIN sessions
              /\ ret'.val # session_id
              /\ ret'.val \in DOMAIN sessions'
              /\ sessions'[ret'.val] = NewSession]_vars

\* C25 amended: get_or_create_session with a non-empty id that is not in the
\* store makes the new session under the id supplied and returns that id;
\* only with None or the empty string does it make the session under a
\* freshly generated id, which is not in the store before the call
C25_UnknownIdIsAdopted ==
    [][/\ \A session_id \in (CallerIds \cup Uuids) \ DOMAIN sessions :
             (ret'.kind = "id" /\ clock' = clock /\ get_or_create_session(session_id)) =>
                 /\ ret'.val = session_id
                 /\ session_id \in DOMAIN sessions'
                 /\ sessions'[session_id] = NewSession
       /\ \A session_id \in {None, EmptyId} :
             (ret'.kind = "id" /\ clock' = clock /\ get_or_create_session(session_id)) =>
                 /\ ret'.val \in Uuids \ DOMAIN sessions
                 /\ ret'.val \in DOMAIN sessions'
                 /\ sessions'[ret'.val] = NewSession]_vars

\* get_or_create_session has made a session under the caller's id, beside a
\* session under a generated id
C25_Witness ==
    /\ ret.kind = "id"
    /\ ret.val \in CallerIds
    /\ DOMAIN sessions = CallerIds \cup Uuids
    /\ sessions[ret.val] = NewSession
    /\ \E uuid \in Uuids : sessions[uuid].created_at < clock

\* the store after the step
StoreAfter == [sessions |-> sessions', operation_count |-> operation_count',
               cleanup_stats |-> cleanup_stats']

\* after the step the session is the one it was (same created_at), it is
\* listed by list_active_sessions and a sweep run now keeps it
Revived(session_id) ==
    /\ session_id \in DOMAIN sessions'
    /\ sessions'[session_id].created_at = sessions[session_id].created_at
    /\ session_id \in list_active_sessions(sessions', clock')
    /\ session_id \in DOMAIN CleanupExpiredSessions(StoreAfter, clock').store.sessions

\* C28: a session whose timeout has elapsed and which no sweep has removed
\* yet is revived by add_user_message, add_ai_message,
\* get_conversation_history and clear_session: afterwards it is listed by
\* list_active_sessions and survives a sweep; the appends put their message
\* behind the earlier messages (and trim as usual), get_conversation_history
\* returns and keeps the earlier messages, clear_session empties them
C28_TouchRevivesExpiredSession ==
    [][\A session_id \in DOMAIN sessions :
          (clock' = clock /\ IsExpired(sessions[session_id], clock)) =>
            /\ \A message \in Contents :
                  add_user_message(session_id, message) =>
                      /\ Revived(session_id)
                      /\ sessions'[session_id].chat_history =
                            TrimmedMessages(Append(sessions[session_id].chat_history,
                                                   HumanMessage(message)), max_messages)
            /\ \A message \in Contents :
                  add_ai_message(session_id, message) =>
                      /\ Revived(session_id)
                      /\ sessions'[session_id].chat_history =
                            TrimmedMessages(Append(sessions[session_id].chat_history,
                                                   AIMessage(message)), max_messages)
            /\ get_conversation_history(session_id) =>
                  /\ Revived(session_id)
                  /\ sessions'[session_id].chat_history = sessions[session_id].chat_history
                  /\ ret'.val = sessions[session_id].chat_history
            /\ clear_session(session_id) =>
                  /\ Revived(session_id)
                  /\ sessions'[session_id].chat_history = <<>>]_vars

\* a session made at time 0 has been read a whole timeout later, with the
\* messages it held
C28_Witness ==
    \E session_id \in DOMAIN sessions :
        /\ sessions[session_id].created_at = 0
        /\ sessions[session_id].last_accessed = clock
        /\ clock >= session_timeout
        /\ Len(sessions[session_id].chat_history) >= 2
        /\ ret = [kind |-> "messages", val |-> sessions[session_id].chat_history]

----------------------------------------------------------------------------
(* Claims about the read handlers and the counter under SpecReads *)

\* C27: the read operations never create a session: called with an id that
\* is not in the store, get_conversation_history returns the empty list,
\* get_conversation_context the empty string and get_session_info None, and
\* each leaves the session map, the operation counter and the cleanup
\* statistics unchanged
C27_ReadsOfUnknownIdChangeNothing ==
    [][\A session_id \in IdArgs \ DOMAIN sessions :
          clock' = clock =>
            /\ get_conversation_history(session_id) =>
                  ret' = [kind |-> "messages", val |-> <<>>] /\ UNCHANGED storeVars
            /\ \A include_last_n \in IncludeLastN :
                  get_conversation_context(session_id, include_last_n) =>
                      ret' = [kind |-> "context", val |-> ""] /\ UNCHANGED storeVars
            /\ get_session_info(session_id) =>
                  ret' = [kind |-> "none"] /\ UNCHANGED storeVars]_vars

\* get_conversation_context has returned "" while every session of the store
\* holds messages: it was called with an id that is not in the store, between
\* two sweeps
C27_Witness ==
    /\ ret = [kind |-> "context", val |-> ""]
    /\ DOMAIN sessions # {}
    /\ \A session_id \in DOMAIN sessions : sessions[session_id].chat_history # <<>>
    /\ operation_count = 1

\* the sessions a sweep at the time of the call finds expired
ExpiredNow == {session_id \in DOMAIN sessions : IsExpired(sessions[session_id], clock)}

\* what the step adds to total_expired_removed
RemovedInStep ==
    cleanup_stats'.total_expired_removed - cleanup_stats.total_expired_removed

\* the counter after so many calls of _maybe_auto_cleanup, each of which
\* counts and starts again from 0 when it reaches the interval
RECURSIVE CounterAfter(_, _)
CounterAfter(count, calls) ==
    IF calls = 0
    THEN count
    ELSE CounterAfter(IF count + 1 >= auto_cleanup_interval THEN 0 ELSE count + 1,
                      calls - 1)

\* one of so many calls of _maybe_auto_cleanup reaches the interval and sweeps
SweepsWithin(calls) == calls > 0 /\ operation_count + calls >= auto_cleanup_interval

\* an operation that calls _maybe_auto_cleanup so many times, after having
\* touched the sessions in touched: the call that reaches the interval sweeps
\* and sets the counter to 0, every other call moves it on
CountingOperation(calls, touched) ==
    /\ IF SweepsWithin(calls)
       THEN /\ operation_count' = CounterAfter(operation_count, calls)
            /\ RemovedInStep = Cardinality(ExpiredNow \ touched)
       ELSE /\ operation_count' = operation_count + calls
            /\ cleanup_stats' = cleanup_stats

\* an operation that neither counts nor sweeps
NotCounting == operation_count' = operation_count /\ cleanup_stats' = cleanup_stats

\* how many times a call with this id runs _maybe_auto_cleanup
CallsOfAppend(session_id) == IF session_id \in DOMAIN sessions THEN 1 ELSE 2
CallsOfRead(session_id) == IF session_id \in DOMAIN sessions THEN 1 ELSE 0

\* what every operation of the store does to the counter and to
\* total_expired_removed; every_sweep_resets says whether the sweep called
\* directly sets the counter to 0 as the sweeps of _maybe_auto_cleanup do
CounterAndTotal(every_sweep_resets) ==
    /\ \A session_id \in IdArgs :
          (ret'.kind = "id" /\ clock' = clock /\ get_or_create_session(session_id)) =>
              CountingOperation(1, {})
    /\ \A session_id \in IdArgs, message \in Contents :
          (/\ ret'.kind = "none"
           /\ clock' = clock
           /\ add_user_message(session_id, message) \/ add_ai_message(session_id, message))
              => CountingOperation(CallsOfAppend(session_id), {session_id})
    /\ \A session_id \in IdArgs :
          (ret'.kind = "messages" /\ clock' = clock /\ get_conversation_history(session_id))
              => CountingOperation(CallsOfRead(session_id), {session_id})
    /\ \A session_id \in IdArgs, include_last_n \in IncludeLastN :
          (/\ ret'.kind = "context"
           /\ clock' = clock
           /\ get_conversation_context(session_id, include_last_n))
              => CountingOperation(CallsOfRead(session_id), {session_id})
    /\ (ret'.kind = "stats" /\ get_memory_stats) =>
          /\ operation_count' = 0
          /\ RemovedInStep = Cardinality(ExpiredNow)
          /\ ret'.val.cleanup_stats = cleanup_stats'
    /\ (ret'.kind = "count" /\ clock' = clock /\ force_cleanup) =>
          /\ operation_count' = 0
          /\ RemovedInStep = Cardinality(ExpiredNow)
          /\ ret'.val = RemovedInStep
    /\ (ret'.kind = "count" /\ clock' = clock /\ cleanup_expired_sessions) =>
          /\ operation_count' = IF every_sweep_resets THEN 0 ELSE operation_count
          /\ RemovedInStep = Cardinality(ExpiredNow)
          /\ ret'.val = RemovedInStep
    /\ \A session_id \in IdArgs :
          (clock' = clock /\ (\/ clear_session(session_id)
                              \/ delete_session(session_id)
                              \/ get_session_info(session_id))) => NotCounting
    /\ (ret'.kind = "cleanup_stats" /\ clock' = clock /\ get_cleanup_stats) =>
          /\ NotCounting
          /\ ret'.val.current_operation_count = operation_count
          /\ ret'.val.total_expired_sessions_removed = cleanup_stats.total_expired_removed
    /\ Tick => NotCounting

\* C29 as stated: with auto_cleanup_interval >= 1 the counter is within
\* 0 .. auto_cleanup_interval - 1 after every operation; it is set to 0 by
\* exactly the operations that run a sweep, and moved on by the other
\* counting operations; and total_expired_removed grows by the count of
\* every sweep, from 0
C29_CounterResetByEverySweep ==
    /\ [](operation_count \in 0..(auto_cleanup_interval - 1))
    /\ cleanup_stats.total_expired_removed = 0
    /\ [][CounterAndTotal(TRUE)]_vars

\* C29 amended: with auto_cleanup_interval >= 1 the counter is within
\* 0 .. auto_cleanup_interval - 1 after every operation; it is set to 0 by
\* exactly the sweeps that _maybe_auto_cleanup runs (the counter reaching
\* the interval, get_memory_stats, force_cleanup), while
\* cleanup_expired_sessions called directly sweeps and leaves the counter as
\* it is; and total_expired_removed grows by the count of every sweep, from 0
C29_CounterResetByAutoCleanup ==
    /\ [](operation_count \in 0..(auto_cleanup_interval - 1))
    /\ cleanup_stats.total_expired_removed = 0
    /\ [][CounterAndTotal(FALSE)]_vars

\* cleanup_expired_sessions, called directly, has removed a session and the
\* counter stands at 1
C29_Witness ==
    /\ ret.kind = "count"
    /\ ret.val >= 1
    /\ operation_count = 1
    /\ cleanup_stats.total_expired_removed >= ret.val

----------------------------------------------------------------------------
(* Claims about concurrent requests under SpecConc *)

\* the history the session has after the appends of thread t and then of
\* thread u, each run to its end before the other starts
SequentialAppends(t, u) ==
    TrimmedMessages(
        Append(TrimmedMessages(Append(FullHistory(max_messages), threads[t].message),
                               max_messages),
               threads[u].message),
        max_messages)

\* C5: two concurrent appends to one session are serialized: once both have
\* returned (and no sweep removed the session), the history is the one that
\* one of the two sequential orders of the appends and their trims gives, so
\* no appended message is lost.
C5_AppendsSerialized ==
    \A session_id \in CallerIds :
        ( /\ \A t \in ThreadIds :
                /\ threads[t].pc = "done"
                /\ IsAppend(threads[t].op)
                /\ threads[t].session_id = session_id
          /\ cleanup_stats.total_expired_removed = 0 )
        => /\ session_id \in DOMAIN sessions
           /\ heap[sessions[session_id].chat_history]
                \in {SequentialAppends(1, 2), SequentialAppends(2, 1)}

\* C6: a sweep in one thread never races an append in another: the append
\* never raises on a session entry the sweep deleted under it, and the
\* history it has written into is still in the store when it goes on.
C6_SweepNeverRacesAppend ==
    \A t \in ThreadIds, u \in ThreadIds :
        (IsAppend(threads[t].op) /\ threads[u].op = "cleanup_expired_sessions")
        => /\ threads[t].pc # "KeyError"
           /\ threads[t].pc = "a81" => threads[t].session_id \in DOMAIN sessions

----------------------------------------------------------------------------
(* Claims about retrieval under SpecRag *)

\* the results of the vector channel for the query
VectorResults == VectorChannel

\* C7: the list search_documents(query, top_k) returns never has more than
\* top_k entries
C7_AtMostTopK ==
    rag_pc = "searched" => Len(search_results) <= top_k

\* the corpus positions a list of keyword results can have come from
IndexLists ==
    {idx \in ListsOf(1..Len(document_texts), Len(document_texts)) :
        /\ Len(idx) = Len(keyword_results)
        /\ \A i \in 1..Len(idx) :
              /\ keyword_results[i].text = document_texts[idx[i]].text
              /\ keyword_results[i].source_url = document_texts[idx[i]].source_url
              /\ keyword_results[i].score = bm25_scores[idx[i]]}

\* C8: keyword_search(query, k) returns at most k results, each with a score
\* above zero, in non-increasing order of score, equal scores in the order of
\* their corpus index, and leaves out no document with a positive score
\* while it returns one with a lower score
C8_KeywordSearchTopPositive ==
    rag_pc = "searched" =>
        /\ Len(keyword_results) <= top_k
        /\ \A i \in 1..Len(keyword_results) : RatLess(Zero, keyword_results[i].score)
        /\ \E idx \in IndexLists :
              /\ \A i, j \in 1..Len(idx) :
                    i < j => /\ RatLeq(bm25_scores[idx[j]], bm25_scores[idx[i]])
                             /\ bm25_scores[idx[j]] = bm25_scores[idx[i]] => idx[i] < idx[j]
              /\ \A d \in 1..Len(document_texts) :
                    (RatLess(Zero, bm25_scores[d]) /\ \A i \in 1..Len(idx) : idx[i] # d)
                        => \A i \in 1..Len(idx) : RatLeq(bm25_scores[d], bm25_scores[idx[i]])

\* a search that returned two documents of equal score and left out a third
\* with a positive score
C8_Witness ==
    /\ rag_pc = "searched"
    /\ Len(keyword_results) = 2
    /\ keyword_results[1].score = keyword_results[2].score
    /\ Cardinality({d \in 1..Len(document_texts) : RatLess(Zero, bm25_scores[d])}) = 3

\* merge_and_rerank has run on the results of the two channels
Merged ==
    /\ rag_pc = "searched"
    /\ settings.ENABLE_HYBRID_SEARCH
    /\ Len(keyword_results) > 0

\* the weighted contribution of hit i of a channel
Contribution(results, i, weight) ==
    RatMul(ScoreOf(NormalizeScores(results)[i]), Tenths(weight))

\* the weighted contributions of the channel's hits with the key, summed
RECURSIVE SumOfContributions(_, _, _, _)
SumOfContributions(results, i, weight, key) ==
    IF i = 0
    THEN Zero
    ELSE RatAdd(SumOfContributions(results, i - 1, weight, key),
                IF TextKey(results[i].text) = key
                THEN Contribution(results, i, weight) ELSE Zero)

\* the positions of list whose text has the key
WithKey(list, key) == {e \in 1..Len(list) : TextKey(list[e].text) = key}

\* the keys a vector hit and a keyword hit share
SharedKeys ==
    {TextKey(VectorResults[i].text) : i \in 1..Len(VectorResults)}
        \cap {TextKey(keyword_results[j].text) : j \in 1..Len(keyword_results)}

Tags(entry) == {entry.search_types[t] : t \in 1..Len(entry.search_types)}

C10_NothingFoundNoLlmCall ==
    (rag_pc = "answered" /\ Len(VectorResults) = 0 /\ Len(keyword_results) = 0) =>
        /\ response.answer = NoInformationAnswer
        /\ response.sources = << >>
        /\ response.retrieved_chunks = 0
        /\ llm_calls = 0

\* answer_question has answered a query for which Qdrant gave nothing and no
\* document of the corpus has a positive BM25 score
C10_Witness ==
    /\ rag_pc = "answered"
    /\ Len(VectorResults) = 0
    /\ Len(document_texts) > 0
    /\ settings.ENABLE_HYBRID_SEARCH
    /\ Len(keyword_results) = 0
    /\ response.answer = NoInformationAnswer

\* the texts generate_rag_response returns when the language model call raised
FallbackAnswers == {ConnectionErrorAnswer, ValueErrorAnswer, UnexpectedErrorAnswer}

\* C11: whichever of query enhancement, query embedding, the vector backend,
\* the keyword index and the answer generation fail, answer_question raises
\* nothing and returns a response with an answer string: a
\* failed channel contributes no result, a failed enhancement leaves the
\* original query, a failed generation gives a fallback text
C11_FailuresDegrade ==
    rag_pc = "answered" =>
          /\ "answer" \in DOMAIN response
          /\ response.answer \in {NoInformationAnswer, GeneratedAnswer} \cup FallbackAnswers
          /\ response.retrieved_chunks = Len(search_results)
          /\ ({"embedding", "qdrant"} \cap faults # {}) =>
                "vector" \notin SearchMethodsUsed(search_results)
          /\ "bm25" \in faults =>
                (keyword_results = << >> /\ "keyword" \notin SearchMethodsUsed(search_results))
          /\ "enhancement" \in faults => enhanced_query = "query"
          /\ llm_outcome \in LlmOutcomes \ {"ok"} => response.answer \in FallbackAnswers

\* answer_question has answered although the vector backend failed while it
\* had a point for the query, and the language model call raised
C11_Witness ==
    /\ rag_pc = "answered"
    /\ "qdrant" \in faults
    /\ Len(qdrant_hits) > 0
    /\ settings.ENABLE_QUERY_ENHANCEMENT
    /\ "enhancement" \in faults
    /\ Len(keyword_results) > 0
    /\ llm_outcome = "ConnectionError"
    /\ response.answer = ConnectionErrorAnswer

\* the query has been searched with hybrid search enabled and only the vector
\* channel returned results
OnlyVector ==
    /\ rag_pc # "start"
    /\ settings.ENABLE_HYBRID_SEARCH
    /\ Len(VectorResults) > 0
    /\ Len(keyword_results) = 0

\* the query has been searched and only the keyword channel returned results
OnlyKeyword ==
    rag_pc # "start" /\ Len(VectorResults) = 0 /\ Len(keyword_results) > 0

\* the min-max normalized score of hit i of a channel: (score - min) / (max -
\* min), the score itself when all scores of the channel are equal
MinMax(results, i) ==
    LET scores == {results[j].score : j \in 1..Len(results)}
    IN  IF RatMax(scores) = RatMin(scores)
        THEN results[i].score
        ELSE RatDiv(RatSub(results[i].score, RatMin(scores)),
                    RatSub(RatMax(scores), RatMin(scores)))

\* the score an entry of the output is ranked by
CarriedScore(entry) ==
    IF "final_score" \in DOMAIN entry THEN entry.final_score ELSE entry.score

\* every entry of the output is a hit of the channel and carries the hit's
\* normalized score times weight (in tenths)
NormalizedTimesWeight(results, weight) ==
    \A e \in 1..Len(search_results) :
        \E i \in 1..Len(results) :
            /\ results[i].text = search_results[e].text
            /\ CarriedScore(search_results[e]) = RatMul(MinMax(results, i), Tenths(weight))

\* the normalized scores times weight of the first i hits of a channel that
\* have the key, summed
RECURSIVE WeightedSum(_, _, _, _)
WeightedSum(results, i, weight, key) ==
    IF i = 0
    THEN Zero
    ELSE RatAdd(WeightedSum(results, i - 1, weight, key),
                IF TextKey(results[i].text) = key
                THEN RatMul(MinMax(results, i), Tenths(weight)) ELSE Zero)

\* C21 as stated: when exactly one channel returned results, every entry of
\* the fused output carries that channel's normalized score times that
\* channel's weight, for the vector channel alone and for the keyword
\* channel alone
C21_OneChannelNormalizedTimesWeight ==
    /\ OnlyVector => NormalizedTimesWeight(VectorResults, settings.HYBRID_VECTOR_WEIGHT)
    /\ OnlyKeyword => NormalizedTimesWeight(keyword_results, settings.HYBRID_KEYWORD_WEIGHT)

\* C21 amended: when only the keyword channel returned results, every entry
\* of the output has as final_score the sum of normalized score times
\* keyword weight over the keyword hits with its first 100 characters (the
\* one product when no other hit shares them); when only the vector channel
\* returned results, the output is the vector list with its raw scores and
\* no final_score
C21_OneChannelScores ==
    /\ OnlyVector =>
          /\ Len(search_results) = Len(VectorResults)
          /\ \A e \in 1..Len(search_results) :
                /\ "final_score" \notin DOMAIN search_results[e]
                /\ search_results[e].text = VectorResults[e].text
                /\ search_results[e].score = VectorResults[e].score
    /\ OnlyKeyword =>
          \A e \in 1..Len(search_results) :
              LET key == TextKey(search_results[e].text)
                  hits == WithKey(keyword_results, key)
              IN  /\ hits # {}
                  /\ search_results[e].final_score =
                        WeightedSum(keyword_results, Len(keyword_results),
                                    settings.HYBRID_KEYWORD_WEIGHT, key)
                  /\ Cardinality(hits) = 1 =>
                        \A i \in hits :
                            search_results[e].final_score =
                                RatMul(MinMax(keyword_results, i),
                                       Tenths(settings.HYBRID_KEYWORD_WEIGHT))

\* only the keyword channel returned results, two of different score, and
\* the better one has a positive final_score
C21_Witness ==
    /\ OnlyKeyword
    /\ Len(search_results) = 2
    /\ keyword_results[1].score # keyword_results[2].score
    /\ RatLess(Zero, search_results[1].final_score)
    /\ search_results[2].final_score = Zero

\* a score of [0, 1]
InUnitInterval(x) == RatLeq(Zero, x) /\ RatLeq(x, One)

\* C22: with weights that are not negative and sum to 1, the score of every
\* hit that enters the weighted sum of merge_and_rerank lies in [0, 1],
\* also for a channel with one hit or with equal hits and for keyword
\* scores above 1, and so does every final_score of the output
C22_ScoresInUnitInterval ==
    (Merged /\ settings.HYBRID_VECTOR_WEIGHT + settings.HYBRID_KEYWORD_WEIGHT = 10) =>
        /\ \A i \in 1..Len(VectorResults) :
              InUnitInterval(ScoreOf(NormalizeScores(VectorResults)[i]))
        /\ \A j \in 1..Len(keyword_results) :
              InUnitInterval(ScoreOf(NormalizeScores(keyword_results)[j]))
        /\ \A e \in 1..Len(search_results) :
              InUnitInterval(search_results[e].final_score)

\* C23: with hybrid search enabled, when the keyword channel returns nothing
\* search_documents returns the vector channel's list itself: the same
\* entries in the same order with the same scores, nothing added, dropped
\* or renormalized
C23_NoKeywordResultsVectorListUnchanged ==
    (rag_pc # "start" /\ settings.ENABLE_HYBRID_SEARCH /\ keyword_results = << >>) =>
        /\ search_results = VectorResults
        /\ \A e \in 1..Len(search_results) :
              /\ DOMAIN search_results[e] = {"text", "source_url", "score", "search_type"}
              /\ search_results[e].score = qdrant_hits[e].score
              /\ search_results[e].text = qdrant_hits[e].text

\* hybrid search with a corpus in which no document scores for the query:
\* the output is Qdrant's two points, of different score, under a vector
\* weight below 1
C23_Witness ==
    /\ rag_pc = "searched"
    /\ settings.ENABLE_HYBRID_SEARCH
    /\ settings.HYBRID_VECTOR_WEIGHT = 7
    /\ Len(document_texts) > 0
    /\ keyword_results = << >>
    /\ Len(search_results) = 2
    /\ search_results[1].score # search_results[2].score

\* a result of answer_question apart from its answer text
WithoutAnswer(result) == [k \in DOMAIN result \ {"answer"} |-> result[k]]

\* C24: when the language model call failed, the answer is a fallback text
\* and the result of answer_question tells the failure by more than that
\* text: apart from the answer it differs from the result a successful
\* generation gives for the same search results
C24_FailedGenerationSignalled ==
    (rag_pc = "answered" /\ llm_outcome \in LlmOutcomes \ {"ok"}) =>
        /\ response.answer \in FallbackAnswers
        /\ WithoutAnswer(response) #
              WithoutAnswer(AnswerQuestionResult(settings, search_results, "ok"))

\* the channel tags of an entry of the output
ChannelsOf(entry) ==
    IF "search_types" \in DOMAIN entry THEN Tags(entry) ELSE {entry.search_type}

\* the texts of a list of results, in order
TextsOf(results) == [i \in 1..Len(results) |-> results[i].text]

\* no entry of the output was found by the keyword channel alone
NoKeywordOnlyResult ==
    \A e \in 1..Len(search_results) : ChannelsOf(search_results[e]) # {"keyword"}

\* no entry of the output was found by the vector channel alone
NoVectorOnlyResult ==
    \A e \in 1..Len(search_results) : ChannelsOf(search_results[e]) # {"vector"}

\* C26: with hybrid search enabled and keyword weight 0 only the vector
\* search is used: the output holds no result found by the keyword channel
\* alone and is the vector channel's ranking; with vector weight 0 the
\* output holds no result found by the vector channel alone
C26_ZeroWeightChannelUnused ==
    (rag_pc # "start" /\ settings.ENABLE_HYBRID_SEARCH) =>
        /\ settings.HYBRID_KEYWORD_WEIGHT = 0 =>
              /\ NoKeywordOnlyResult
              /\ TextsOf(search_results) = TextsOf(VectorResults)
        /\ settings.HYBRID_VECTOR_WEIGHT = 0 => NoVectorOnlyResult

\* C30: in every entry merge_and_rerank returns, search_types has each
\* channel tag at most once, and has a tag exactly when that channel
\* returned a hit with the entry's first 100 characters, also when a channel
\* returned two hits that share them
C30_SearchTypesOncePerChannel ==
    Merged =>
        \A e \in 1..Len(search_results) :
            LET types == search_results[e].search_types
                key == TextKey(search_results[e].text)
            IN  /\ \A a, b \in 1..Len(types) : a # b => types[a] # types[b]
                /\ "vector" \in Tags(search_results[e]) <=> WithKey(VectorResults, key) # {}
                /\ "keyword" \in Tags(search_results[e]) <=> WithKey(keyword_results, key) # {}

----------------------------------------------------------------------------
(* Claims about appends and their trim under SpecAppend *)

\* the messages an append step took out of the session
Removed ==
    Len(HistoryOf(sessions, AppendSession)) + 1 - Len(HistoryOf(sessions', AppendSession))

\* C12 as stated: with max_messages even and at least 2, every append's trim
\* removes an even number of messages
C12_TrimRemovesEvenNumber ==
    [][((AppendUser \/ AppendAi) /\ max_messages % 2 = 0) => Removed % 2 = 0]_vars

\* C12 amended: with max_messages even and at least 4, every append's trim
\* removes exactly 2 messages; with max_messages = 2 it removes exactly 1,
\* and the two newest messages stay
C12_TrimRemovesPairOrKeepsTwo ==
    [][((AppendUser \/ AppendAi) /\ max_messages % 2 = 0) =>
          /\ Len(HistoryOf(sessions, AppendSession)) < max_messages => Removed = 0
          /\ Len(HistoryOf(sessions, AppendSession)) = max_messages =>
                Removed = (IF max_messages = 2 THEN 1 ELSE 2)]_vars

\* appends to a session with an even max_messages of 4 or more have gone
\* through more than one trim
C12_Witness ==
    /\ max_messages % 2 = 0
    /\ max_messages >= 4
    /\ AppendSession \in DOMAIN sessions
    /\ Len(sessions[AppendSession].chat_history) > 0
    /\ sessions[AppendSession].chat_history[1].content > 3

\* what an append of message to the session has to leave: the newest
\* messages of the old history followed by the message, the message last,
\* and at least 2 messages when any was removed
AppendKeepsNewest(message) ==
    LET full == Append(HistoryOf(sessions, AppendSession), message)
        after == HistoryOf(sessions', AppendSession)
    IN  /\ AppendSession \in DOMAIN sessions'
        /\ Len(after) >= 1
        /\ Len(after) <= Len(full)
        /\ after = SubSeq(full, Len(full) - Len(after) + 1, Len(full))
        /\ after[Len(after)] = message
        /\ Len(after) < Len(full) => Len(after) >= 2

\* C13: after any append the session's history is a suffix of the history
\* before it followed by the new message, the new message is its last
\* element, and when the trim removed anything at least 2 messages remain
C13_TrimRemovesOldestKeepsTwo ==
    [][/\ AppendUser => AppendKeepsNewest(HumanMessage(NextNumber))
       /\ AppendAi => AppendKeepsNewest(AIMessage(NextNumber))]_vars

\* a trim has cut a session with max_messages = 3 down to its 2 newest
\* messages
C13_Witness ==
    /\ max_messages = 3
    /\ AppendSession \in DOMAIN sessions
    /\ Len(sessions[AppendSession].chat_history) = 2
    /\ sessions[AppendSession].chat_history[1].content > 1

----------------------------------------------------------------------------
(* Claims about recorded turns under SpecTurns *)

\* the history of the conversation session
ConversationHistory == HistoryOf(sessions, conversation_session_id)

\* a request is between the two appends of the turn whose user message is m
WritingAnswerTo(m) ==
    \E t \in ThreadIds :
        /\ requests[t].pc \in {"l380", "l384", "l852"}
        /\ requests[t].next_append = "ai"
        /\ requests[t].input_text = m.content

MessagesOf(t) ==
    SelectSeq(ConversationHistory,
              LAMBDA m : \/ m.content = requests[t].input_text
                         \/ m.content = requests[t].response_content)

\* C20: a request that has completed, from the chat form or from a
\* sample-question button, has put into the history one user message with
\* its query text followed by one assistant message with the produced answer
C20_TurnRecordedOnce ==
    \A t \in ThreadIds :
        requests[t].pc = "done" =>
            MessagesOf(t) = <<HumanMessage(requests[t].input_text),
                              AIMessage(requests[t].response_content)>>

============================================================================
